---- MODULE Spec2Model ----
(***************************************************************************)
(* Verification model of the tianshu bridge core:                          *)
(*   - core/approval_reply.py   (approval correlation store)               *)
(*   - diting_listener.py       (approval reply listener)                  *)
(*   - core/delivery_log.py     (delivery ledger)                          *)
(*   - matrix/client.py, diting_listener.py (sync loops)                   *)
(* Python's None is modelled by the empty tuple, a (cheq_id, url) pair by  *)
(* a 2-tuple and a list by a sequence.                                     *)
(***************************************************************************)
EXTENDS Integers, Sequences, FiniteSets, TLC

VARIABLES
    now,            \* time.time(), in model clock ticks
    ret,            \* what the last operation returned: [op, args, val]
    store,          \* approval_reply._store : (room_id, event_id) -> entry
    pending_queue,  \* approval_reply._pending_queue : room_id -> list of entries
    queue_keys,     \* insertion order of the keys of _pending_queue (dict order)
    n_records,      \* number of record_approval_message calls so far
    resolved,       \* request ids resolved successfully since they were last recorded
    log,            \* delivery_log._log : list of delivery records
    next_uuid,      \* the next value uuid.uuid4() yields (never repeats)
    n_starts,       \* number of record_delivery_start calls so far
    n_dones,        \* number of record_delivery_done calls so far
    loop,           \* which sync loop runs: "matrix" (MatrixClient) or "diting"
    has_on_disconnect, \* MatrixClient._on_disconnect is set
    pc,             \* where the loop task stands
    running,        \* self._running
    backoff,        \* the local backoff of _sync_loop, seconds
    cur_batch,      \* timeline events of the batch the last successful poll returned
    pos,            \* index in cur_batch of the next event of the for loop
    cause,          \* what raised the exception the loop is handling, if any
    last_wait,      \* the argument of the asyncio.sleep in progress (0: none)
    consec_fails,   \* failed polls since the last successful one
    task_end,       \* how the loop task ended: "none" (it has not), "returned", "cancelled"
    disconnect_called, \* on_disconnect was awaited for the exception being handled
    USE_PRIVATE_ROOM, \* config: one Matrix room per chat
    SHARED_ROOM_ID, \* config: the room every chat shares, if any
    chat_to_room,   \* room_manager._chat_to_room: chat id -> room id
    room_to_chats,  \* room_manager._room_to_chats: room id -> list of chat ids
    observed,       \* the last event DitingApprovalListener._handle_event was given
    trace,          \* handler starts and ends of the current batch: <<"start"|"end", index>>
    next_batch,     \* the listener's local next_batch; 0 is the empty string
    first_sync,     \* the listener's local first_sync
    last_poll,      \* the parameters of the last poll the listener issued, None before
    served,         \* the next_batch token of the last successful response (0: none yet)
    approval_results, \* storage bucket "approval_results": request_id -> record
    agent_owner,    \* storage bucket "rel_agent_owner": agent_id -> owner_id
    owner_history,  \* storage bucket "owner_change_history": <<agent_id, at>> -> record
    pending_codes,  \* pairing_code._pending: code -> [owner_id, expires_at]
    n_agents,       \* agents allocated so far; allocate_agent_id never repeats an id
    n_created,      \* per code, the create_pairing_code calls that issued it
    n_redeemed,     \* per code, the submit_pairing_code calls that succeeded with it
    calls,          \* each inbound call: where it stands, its chat and its room_id
    rooms_made,     \* the rooms create_room made, with the chat each was made for
    relayed,        \* the messages relayed into rooms, with the chat each came from
    n_observed,     \* how many relayed messages the bridge's sync loop has seen
    n_inbound,      \* handle_feishu_event calls begun
    configured,     \* MATRIX_HOMESERVER and DITING_MATRIX_TOKEN are both set
    listener_set,   \* the global _listener holds a DitingApprovalListener
    n_loops         \* listener sync tasks created and not yet ended

storeVars == <<store, pending_queue, queue_keys>>
approvalVars == <<store, pending_queue, queue_keys, n_records, resolved>>
ledgerVars == <<log, next_uuid, n_starts, n_dones>>
syncVars == <<loop, has_on_disconnect, pc, running, backoff, cur_batch, pos, cause,
              last_wait, consec_fails, task_end, disconnect_called>>
registryVars == <<USE_PRIVATE_ROOM, SHARED_ROOM_ID, chat_to_room, room_to_chats>>
\* what only the handlers of observed events write
handlerVars == <<observed>>
\* the locals of the listener's _sync_loop, and what the homeserver and the
\* handlers saw of it
feedVars == <<trace, next_batch, first_sync, last_poll, served>>
\* the buckets of the storage backend
bucketVars == <<approval_results, agent_owner, owner_history>>
\* registration/pairing_code.py and the agents it allocates
pairingVars == <<pending_codes, n_agents, n_created, n_redeemed>>
\* handle_feishu_event calls in flight and what they left behind
inboundVars == <<calls, rooms_made, relayed, n_observed, n_inbound>>
\* diting_listener.py: the configuration and the module's listener
listenerVars == <<configured, listener_set, n_loops>>

----------------------------------------------------------------------------
\* Bounds of the model

MaxTime == 2
MaxRecords == 2
MaxStarts == 3
MaxDones == 2
MaxBatch == 2
\* longest run of failed polls followed
MaxFails == 6
\* successful polls followed event by event
MaxSyncs == 2
\* create_pairing_code calls followed
MaxCreates == 2
\* handle_feishu_event calls followed
MaxInbound == 3

\* _TTL_SEC (3600 s in the source), scaled to model clock ticks
TTL_SEC == 1

Rooms == {"r1", "r2"}
\* Event ids are integers: the homeserver gives every event it accepts a new id
\* (1, 2, ... here); 0 is the empty string of "no event id"
NoEvent == 0
Events == 1..MaxRecords
RequestIds == {"q1", "q2"}
\* gateway_base_url inputs, with a trailing slash
Urls == {"gw/"}

None == <<>>

\* (gateway_base_url or "").rstrip("/")
rstrip_slash(u) == IF u = "gw/" THEN "gw" ELSE u

----------------------------------------------------------------------------
\* core/approval_reply.py

\* the "now - created > _TTL_SEC" test of lookup_by_reply_to
ExpiredAt(t, created) == t - created > TTL_SEC
\* a queue reader without the age test
FreshAt_NoTTL(t, created) == TRUE
\* the "now - created <= _TTL_SEC" test of the queue readers
FreshAt(t, created) == t - created <= TTL_SEC

Entry(request_id, url, t) ==
    [request_id |-> request_id, gateway_base_url |-> url, created |-> t]

Pair(e) == <<e.request_id, e.gateway_base_url>>

\* record_approval_message_debug: the store and the queue after the call
StoreAfterRecord(room, event, request_id, url) ==
    LET key == <<room, event>>
        e == Entry(request_id, rstrip_slash(url), now)
    IN [k \in DOMAIN store \cup {key} |-> IF k = key THEN e ELSE store[k]]

QueueAfterRecord(room, request_id, url) ==
    [pending_queue EXCEPT ![room] = Append(@, Entry(request_id, rstrip_slash(url), now))]

KeysAfterTouch(keys, room) ==
    IF \E i \in DOMAIN keys : keys[i] = room THEN keys ELSE Append(keys, room)

\* lookup_by_reply_to: returned value and store after the lazy deletion
lookup_by_reply_to(st, t, room, event) ==
    LET key == <<room, event>> IN
    IF key \notin DOMAIN st THEN None
    ELSE IF ExpiredAt(t, st[key].created) THEN None
    ELSE Pair(st[key])

StoreAfterLookup(st, t, room, event) ==
    LET key == <<room, event>> IN
    IF key \in DOMAIN st /\ ExpiredAt(t, st[key].created)
    THEN [k \in DOMAIN st \ {key} |-> st[k]]
    ELSE st

\* a scan from the oldest end of the queue
FirstFresh(q, t) ==
    LET fresh == {i \in DOMAIN q : FreshAt(t, q[i].created)}
    IN IF fresh = {} THEN None
       ELSE Pair(q[CHOOSE i \in fresh : \A j \in fresh : i <= j])

RECURSIVE LastFresh(_, _)
\* for ... in reversed(queue): if now - created <= _TTL_SEC: return (cheq_id, base_url)
LastFresh(q, t) ==
    IF q = <<>> THEN None
    ELSE IF FreshAt(t, q[Len(q)].created) THEN Pair(q[Len(q)])
    ELSE LastFresh(SubSeq(q, 1, Len(q) - 1), t)

\* for ... in queue: if now - created <= _TTL_SEC: result.append((cheq_id, base_url))
AllFresh(q, t) ==
    LET kept == SelectSeq(q, LAMBDA e : FreshAt(t, e.created))
    IN [i \in DOMAIN kept |-> Pair(kept[i])]

get_last_pending(pq, t, room) == LastFresh(pq[room], t)

get_all_pending(pq, t, room) == AllFresh(pq[room], t)

RECURSIVE LastGlobalFrom(_, _, _)
\* get_last_pending_global: rooms in dict order, first room with a fresh entry wins
LastGlobalFrom(keys, pq, t) ==
    IF keys = <<>> THEN None
    ELSE IF LastFresh(pq[Head(keys)], t) # None THEN LastFresh(pq[Head(keys)], t)
    ELSE LastGlobalFrom(Tail(keys), pq, t)

get_last_pending_global(keys, pq, t) == LastGlobalFrom(keys, pq, t)

RECURSIVE AllGlobalFrom(_, _, _)
AllGlobalFrom(keys, pq, t) ==
    IF keys = <<>> THEN <<>>
    ELSE AllFresh(pq[Head(keys)], t) \o AllGlobalFrom(Tail(keys), pq, t)

get_all_pending_global(keys, pq, t) == AllGlobalFrom(keys, pq, t)

\* a consume that removes nothing
StoreKept(st, room, event) == st

\* consume_approval_reply: _store.pop((room_id, event_id), None)
StoreAfterConsume(st, room, event) ==
    [k \in DOMAIN st \ {<<room, event>>} |-> st[k]]

\* [(cid, url, t) for cid, url, t in queue if cid != cheq_id]
DropId(q, cheq_id) == SelectSeq(q, LAMBDA e : e.request_id # cheq_id)

\* remove_from_pending: the queue dict after the call
QueueAfterRemove(pq, room, cheq_id) == [pq EXCEPT ![room] = DropId(@, cheq_id)]

----------------------------------------------------------------------------
\* Operations of the approval correlation store

Ret(op, args, val) == [op |-> op, args |-> args, val |-> val]
\* nothing kept of the last operation
NoRet == Ret("", <<>>, None)

\* time.time() advances. Only differences of time are ever read, so the clock is
\* started by the first record
Tick ==
    /\ now < MaxTime
    /\ store # <<>> \/ queue_keys # <<>>
    /\ now' = now + 1
    /\ ret' = NoRet

\* the id of the event whose delivery is recorded next
NextEvent == n_records + 1

\* record_approval_message(room_id, event_id, request_id, gateway_base_url);
\* a falsy room_id, event_id or request_id makes the call a no-op
RecordApproval(room, event, request_id, url) ==
    /\ n_records < MaxRecords
    /\ IF room # "" /\ event # NoEvent /\ request_id # ""
       THEN /\ store' = StoreAfterRecord(room, event, request_id, url)
            /\ pending_queue' = QueueAfterRecord(room, request_id, url)
            /\ queue_keys' = KeysAfterTouch(queue_keys, room)
            /\ resolved' = resolved \ {request_id}
            /\ n_records' = n_records + 1
       ELSE UNCHANGED approvalVars
    /\ UNCHANGED now
    /\ ret' = NoRet

\* lookup_by_reply_to deletes what it finds expired; the other readers
\* (get_last_pending, get_all_pending, get_last_pending_global,
\* get_all_pending_global) change nothing and are the operators above
LookupByReplyTo(room, event) ==
    /\ store' = StoreAfterLookup(store, now, room, event)
    /\ UNCHANGED now
    /\ ret' = NoRet
    /\ UNCHANGED <<pending_queue, queue_keys, n_records, resolved>>

ConsumeApprovalReply(room, event) ==
    /\ store' = StoreAfterConsume(store, room, event)
    /\ UNCHANGED now
    /\ ret' = NoRet
    /\ UNCHANGED <<pending_queue, queue_keys, n_records, resolved>>

RemoveFromPending(room, cheq_id) ==
    /\ pending_queue' = QueueAfterRemove(pending_queue, room, cheq_id)
    /\ queue_keys' = KeysAfterTouch(queue_keys, room)
    /\ UNCHANGED now
    /\ ret' = NoRet
    /\ UNCHANGED <<store, n_records, resolved>>

----------------------------------------------------------------------------
\* diting_listener.py : DitingApprovalListener._process_approval

\* outcome of one call of the resolution endpoint: "ok" is a status < 300; "failed"
\* is another status or an exception of the HTTP client (both are only logged)
Outcomes == {"ok", "failed"}

Firsts(pairs) == [i \in DOMAIN pairs |-> pairs[i][1]]

\* a resolution that ignores the reply-to reference
CheqIdsFor_LastPending(room, in_reply_to, is_approve_all) ==
    IF is_approve_all
    THEN Firsts(get_all_pending_global(queue_keys, pending_queue, now))
    ELSE LET result == get_last_pending(pending_queue, now, room)
         IN IF result # None THEN <<result[1]>> ELSE <<>>

\* lines 205-231: the request ids the reply is resolved to
CheqIdsFor(room, in_reply_to, is_approve_all) ==
    IF is_approve_all
    THEN Firsts(get_all_pending_global(queue_keys, pending_queue, now))
    ELSE IF in_reply_to # NoEvent
    THEN LET result == lookup_by_reply_to(store, now, room, in_reply_to)
         IN IF result # None THEN <<result[1]>> ELSE <<>>
    ELSE LET result == get_last_pending(pending_queue, now, room)
         IN IF result # None THEN <<result[1]>> ELSE <<>>

\* the store after lines 205-231: only the in_reply_to branch reads the store
StoreAfterResolve(room, in_reply_to, is_approve_all) ==
    IF ~is_approve_all /\ in_reply_to # NoEvent
    THEN StoreAfterLookup(store, now, room, in_reply_to)
    ELSE store

\* line 244: the room whose queue a successfully resolved id is removed from
RemovalRoom(reply_room) == reply_room

RECURSIVE ApplyRemovals(_, _, _)
\* lines 238-250: remove_from_pending(room_id, cheq_id) after every call that
\* succeeded; results lists the ids of those calls in order
ApplyRemovals(pq, room, results) ==
    IF results = <<>> THEN pq
    ELSE ApplyRemovals(QueueAfterRemove(pq, RemovalRoom(room), Head(results)),
                       room, Tail(results))

\* a loop that counts every attempted id as resolved
Results_All(ids, outcomes) == ids

\* the ids accumulated in results (one per successful call), in call order
Results(ids, outcomes) ==
    LET n == Len(ids)
        ok == SelectSeq([i \in 1..n |-> i], LAMBDA i : outcomes[i] = "ok")
    IN [k \in DOMAIN ok |-> ids[ok[k]]]

Range(f) == {f[i] : i \in DOMAIN f}

\* f"{cheq_id[:8]}...": the first 8 characters of the id, then three dots (the
\* ids of the model are shorter than 8 characters)
Fragment(cheq_id) ==
    CASE cheq_id = "q1" -> "q1..."
      [] cheq_id = "q2" -> "q2..."
      [] OTHER -> "..."

\* a confirmation sent whatever the results
Confirmation_Always(room, results) ==
    [room |-> room, count |-> Len(results),
     ids |-> [i \in DOMAIN results |-> Fragment(results[i])]]

\* lines 252-255: the message sent to the reply's room, None when results is empty
Confirmation(room, results) ==
    IF results # <<>>
    THEN [room |-> room, count |-> Len(results),
          ids |-> [i \in DOMAIN results |-> Fragment(results[i])]]
    ELSE None

\* lines 236-255: what _process_approval does once cheq_ids is settled, results
\* being the ids whose resolution call succeeded. It returns nothing; ret.val keeps
\* the request ids of the calls it made, in order, and ret.args the confirmation
\* message it sent
Resolve(room, in_reply_to, is_approve_all, cheq_ids, results) ==
    /\ ret' = Ret("_process_approval", <<Confirmation(room, results)>>, cheq_ids)
    /\ resolved' = resolved \cup Range(results)
    /\ store' = StoreAfterResolve(room, in_reply_to, is_approve_all)
    /\ pending_queue' = ApplyRemovals(pending_queue, room, results)
    /\ queue_keys' = IF results # <<>>
                     THEN KeysAfterTouch(queue_keys, RemovalRoom(room))
                     ELSE queue_keys
    /\ UNCHANGED <<now, n_records>>

\* _process_approval(room_id, sender, in_reply_to, approved, is_approve_all),
\* whatever the gateway answers to each call. approved is only passed on in the
\* body of every call and words the confirmation: one step stands for both values
ProcessApproval(room, in_reply_to, is_approve_all) ==
    \E cheq_ids \in {CheqIdsFor(room, in_reply_to, is_approve_all)} :
    \E outcomes \in [DOMAIN cheq_ids -> Outcomes] :
    \E results \in {Results(cheq_ids, outcomes)} :
        Resolve(room, in_reply_to, is_approve_all, cheq_ids, results)

----------------------------------------------------------------------------
\* core/delivery_log.py

\* _max_entries (5000 in the source), scaled
max_entries == 2

STATUS_PENDING == "pending"
STATUS_DELIVERED == "delivered"
STATUS_FAILED == "failed"
STATUS_REJECTED == "rejected"
STATUS_NO_REPLY == "no_reply"
TerminalStatuses == {STATUS_DELIVERED, STATUS_FAILED, STATUS_REJECTED, STATUS_NO_REPLY}

\* None of an optional string argument or field
NoneStr == "None"
\* delivery ids are integers: uuid4 values are 1, 2, ...; CallerIds are ids a caller
\* makes up; 0 is the falsy "no delivery_id given"
NoDeliveryId == 0
CallerIds == {-1}
SemanticTypes == {"approval_request"}
ReceiveIds == {"oc_1"}
MessageIds == {"om_1"}
ErrorReasons == {"send_failed"}

\* a trim that keeps the oldest entries
_trim_oldest(l) == IF Len(l) > max_entries THEN SubSeq(l, 1, max_entries) ELSE l

\* _trim: keep the last _max_entries entries
_trim(l) ==
    IF Len(l) > max_entries THEN SubSeq(l, Len(l) - max_entries + 1, Len(l)) ELSE l

\* an id generator that repeats itself
DidFor_Repeating(delivery_id) == IF delivery_id # NoDeliveryId THEN delivery_id ELSE 1

\* did = delivery_id or str(uuid.uuid4())
DidFor(delivery_id) == IF delivery_id # NoDeliveryId THEN delivery_id ELSE next_uuid

NewEntry(did, semantic_type, receive_id, payload_summary) ==
    [delivery_id |-> did,
     semantic_type |-> semantic_type,
     target |-> [channel |-> "feishu", receive_id |-> receive_id],
     payload_summary |-> payload_summary,
     status |-> STATUS_PENDING,
     started_at |-> now,
     updated_at |-> now,
     feishu_message_id |-> NoneStr,
     error_reason |-> NoneStr]

\* the log after record_delivery_start: append, then _trim
LogAfterStart(l, entry) == _trim(Append(l, entry))

\* a forward scan: the first match
FirstIndexOf(l, delivery_id) ==
    IF \E i \in DOMAIN l : l[i].delivery_id = delivery_id
    THEN CHOOSE i \in DOMAIN l :
             /\ l[i].delivery_id = delivery_id
             /\ \A j \in 1..(i - 1) : l[j].delivery_id # delivery_id
    ELSE 0

RECURSIVE LastIndexOf(_, _)
\* for e in reversed(_log): if e.get("delivery_id") == delivery_id; 0 when none matches
LastIndexOf(l, delivery_id) ==
    IF l = <<>> THEN 0
    ELSE IF l[Len(l)].delivery_id = delivery_id THEN Len(l)
    ELSE LastIndexOf(SubSeq(l, 1, Len(l) - 1), delivery_id)

\* the entry record_delivery_done leaves at the matched position
DoneEntry(e, status, feishu_message_id, error_reason) ==
    [e EXCEPT !.status = status,
              !.updated_at = now,
              !.feishu_message_id = IF feishu_message_id # NoneStr
                                    THEN feishu_message_id ELSE @,
              !.error_reason = IF error_reason # NoneStr THEN error_reason ELSE @]

LogAfterDone(l, delivery_id, status, feishu_message_id, error_reason) ==
    LET i == LastIndexOf(l, delivery_id) IN
    IF i = 0 THEN l
    ELSE [l EXCEPT ![i] = DoneEntry(@, status, feishu_message_id, error_reason)]

\* get_delivery_status: <<dict(e)>> for the most recent match, None when there is none
get_delivery_status(l, delivery_id) ==
    LET i == LastIndexOf(l, delivery_id) IN
    IF i = 0 THEN None ELSE <<l[i]>>

RecordDeliveryStart(semantic_type, receive_id, payload_summary, delivery_id) ==
    /\ n_starts < MaxStarts
    /\ LET did == DidFor(delivery_id) IN
       /\ log' = LogAfterStart(log, NewEntry(did, semantic_type, receive_id, payload_summary))
       /\ next_uuid' = IF delivery_id # NoDeliveryId THEN next_uuid ELSE next_uuid + 1
       /\ UNCHANGED now
       /\ ret' = Ret("record_delivery_start", <<>>, did)
    /\ n_starts' = n_starts + 1
    /\ UNCHANGED n_dones

RecordDeliveryDone(delivery_id, status, feishu_message_id, error_reason) ==
    /\ n_dones < MaxDones
    /\ log' = LogAfterDone(log, delivery_id, status, feishu_message_id, error_reason)
    /\ UNCHANGED now
    /\ ret' = Ret("record_delivery_done", <<delivery_id>>,
                  LastIndexOf(log, delivery_id) # 0)
    /\ n_dones' = n_dones + 1
    /\ UNCHANGED <<next_uuid, n_starts>>

\* the delivery ids a caller can pass to record_delivery_done: made up, or
\* returned by an earlier start
KnownIds == CallerIds \cup 1..(next_uuid - 1)
\* the delivery_id argument of record_delivery_start: none, or made up by the caller
StartIds == {NoDeliveryId} \cup CallerIds

----------------------------------------------------------------------------
\* matrix/client.py : MatrixClient._sync_loop
\* diting_listener.py : DitingApprovalListener._sync_loop

Loops == {"matrix", "diting"}

\* backoff = 2.0 ; max_backoff = 60.0
base_backoff == 2
max_backoff == 60

Min(a, b) == IF a < b THEN a ELSE b

\* An event of a polled timeline: "good" is a message the handler processes, "bad" a
\* message on which the handler raises, "other" an event that is no text message
EventKinds == {"good", "bad", "other"}

RECURSIVE SeqsUpTo(_, _)
SeqsUpTo(S, n) ==
    IF n = 0 THEN {<<>>}
    ELSE LET shorter == SeqsUpTo(S, n - 1)
         IN shorter \cup {Append(q, x) : q \in shorter, x \in S}

Batches == SeqsUpTo(EventKinds, MaxBatch)

\* whether the loop hands the event to the per-event handler: MatrixClient only
\* passes events that have body and msgtype; the listener passes every event
\* (_handle_event returns at once for what is no m.room.message)
HandlerInvoked(l, kind) == IF l = "matrix" THEN kind # "other" ELSE TRUE

\* whether the handler invocation raises
HandlerRaises(l, kind) == HandlerInvoked(l, kind) /\ kind = "bad"

\* the "except Exception" clause up to its asyncio.sleep. An exception of the
\* awaited handler leaves the for loops and lands here like one of the poll
EnterExcept(why) ==
    /\ cause' = why
    /\ disconnect_called' = (loop = "matrix" /\ has_on_disconnect)
    /\ last_wait' = Min(backoff, max_backoff)
    /\ pc' = "sleep"

\* start_sync_loop / start
StartLoop ==
    /\ pc = "not_started"
    /\ running' = TRUE
    /\ backoff' = base_backoff
    /\ pc' = "poll"
    /\ UNCHANGED <<loop, has_on_disconnect, cur_batch, pos, cause, last_wait,
                   consec_fails, task_end, disconnect_called>>

\* the poll returns a batch
PollOk(batch) ==
    /\ pc = "poll" /\ running
    /\ cur_batch' = batch
    /\ pos' = 1
    /\ backoff' = base_backoff
    /\ cause' = "none"
    /\ disconnect_called' = FALSE
    /\ last_wait' = 0
    /\ consec_fails' = 0
    /\ pc' = "dispatch"
    /\ UNCHANGED <<loop, has_on_disconnect, running, task_end>>

\* the poll returns an error response: MatrixClient "continue"s at once, the
\* listener sleeps (inside its try) and doubles the backoff
PollErrorResponse ==
    /\ pc = "poll" /\ running
    /\ consec_fails < MaxFails
    /\ consec_fails' = consec_fails + 1
    /\ IF loop = "matrix"
       THEN UNCHANGED <<pc, cause, last_wait, disconnect_called>>
       ELSE /\ cause' = "response"
            /\ disconnect_called' = FALSE
            /\ last_wait' = Min(backoff, max_backoff)
            /\ pc' = "sleep"
    /\ UNCHANGED <<loop, has_on_disconnect, running, backoff, cur_batch, pos, task_end>>

\* the poll raises
PollException ==
    /\ pc = "poll" /\ running
    /\ consec_fails < MaxFails
    /\ consec_fails' = consec_fails + 1
    /\ EnterExcept("transport")
    /\ UNCHANGED <<loop, has_on_disconnect, running, backoff, cur_batch, pos, task_end>>

\* one iteration of "for event in events"
DispatchEvent ==
    /\ pc = "dispatch" /\ pos <= Len(cur_batch)
    /\ pos' = pos + 1
    /\ IF HandlerRaises(loop, cur_batch[pos])
       THEN EnterExcept("handler")
       ELSE UNCHANGED <<pc, cause, last_wait, disconnect_called>>
    /\ UNCHANGED <<loop, has_on_disconnect, running, backoff, cur_batch, consec_fails,
                   task_end>>

\* the for loops are exhausted: back to the while condition
FinishBatch ==
    /\ pc = "dispatch" /\ pos > Len(cur_batch)
    /\ pc' = "poll"
    /\ UNCHANGED <<loop, has_on_disconnect, running, backoff, cur_batch, pos, cause,
                   last_wait, consec_fails, task_end, disconnect_called>>

\* asyncio.sleep returns: backoff = min(backoff * 2, max_backoff)
Wake ==
    /\ pc = "sleep"
    /\ backoff' = Min(backoff * 2, max_backoff)
    /\ last_wait' = 0
    /\ pc' = "poll"
    /\ UNCHANGED <<loop, has_on_disconnect, running, cur_batch, pos, cause,
                   consec_fails, task_end, disconnect_called>>

\* how the task ends when it is cancelled at the await it stands at. At the poll,
\* in a handler and in the listener's wait after an error response the
\* CancelledError is raised inside the try and caught by "except
\* asyncio.CancelledError: break"; in the wait (or on_disconnect) of an except
\* clause it leaves the coroutine
TaskEndOnCancel(at, why) ==
    IF at = "sleep" /\ why # "response" THEN "cancelled" ELSE "returned"

\* what "await self._sync_task" lets through to the caller of disconnect / stop:
\* "except asyncio.CancelledError: pass" takes the cancellation
ReachesCaller(end) == end \notin {"returned", "cancelled"}

\* a stop that does not wait for the task
StopLoop_NoJoin ==
    /\ pc \notin {"not_started", "done"}
    /\ running' = FALSE
    /\ UNCHANGED <<loop, has_on_disconnect, pc, backoff, cur_batch, pos, cause,
                   last_wait, consec_fails, task_end, disconnect_called>>

\* disconnect / stop: _running = False, the task is cancelled and awaited
StopLoop ==
    /\ pc \notin {"not_started", "done"}
    /\ running' = FALSE
    /\ task_end' = TaskEndOnCancel(pc, cause)
    /\ pc' = "done"
    /\ UNCHANGED <<loop, has_on_disconnect, backoff, cur_batch, pos, cause, last_wait,
                   consec_fails, disconnect_called>>

----------------------------------------------------------------------------
\* Room registry (core/room_manager.py)

ChatIds == {"A", "B", "C"}

\* values of the SHARED_ROOM_ID setting: unset, empty, a room
SharedRoomIds == {NoneStr, "", "r1"}

\* Python truth value of an optional string
Truthy(x) == x \notin {NoneStr, ""}

\* dict.get(key) and dict.pop(key, ...) on a dictionary held as a function
DictGet(d, k) == IF k \in DOMAIN d THEN d[k] ELSE NoneStr
DictPop(d, k) == [x \in DOMAIN d \ {k} |-> d[x]]
DictSet(d, k, v) == [x \in DOMAIN d \cup {k} |-> IF x = k THEN v ELSE d[x]]

\* a de-duplication that keeps the last occurrence of each element
RECURSIVE KeepLasts(_, _)
KeepLasts(l, i) ==
    IF i > Len(l) THEN <<>>
    ELSE (IF \E j \in (i + 1)..Len(l) : l[j] = l[i] THEN <<>> ELSE <<l[i]>>)
         \o KeepLasts(l, i + 1)

dict_lastkeys(l) == KeepLasts(l, 1)

\* list(dict.fromkeys(l)): each element once, at the place of its first occurrence
RECURSIVE KeepFirsts(_, _)
KeepFirsts(l, i) ==
    IF i > Len(l) THEN <<>>
    ELSE (IF \E j \in 1..(i - 1) : l[j] = l[i] THEN <<>> ELSE <<l[i]>>)
         \o KeepFirsts(l, i + 1)

dict_fromkeys(l) == KeepFirsts(l, 1)

get_matrix_room_id_mapped(private, shared, c2r, feishu_chat_id) ==
    DictGet(c2r, feishu_chat_id)

get_matrix_room_id(private, shared, c2r, feishu_chat_id) ==
    IF private THEN DictGet(c2r, feishu_chat_id)
    ELSE IF Truthy(shared) THEN shared ELSE DictGet(c2r, feishu_chat_id)

\* _room_to_chats.get(matrix_room_id) or []
ChatsOf(r2c, matrix_room_id) ==
    IF matrix_room_id \in DOMAIN r2c THEN r2c[matrix_room_id] ELSE <<>>

get_feishu_chat_id(r2c, matrix_room_id) ==
    IF ChatsOf(r2c, matrix_room_id) # <<>> THEN ChatsOf(r2c, matrix_room_id)[1]
    ELSE NoneStr

get_feishu_chat_ids(r2c, matrix_room_id) == ChatsOf(r2c, matrix_room_id)

\* setdefault(matrix_room_id, []).append(feishu_chat_id), then the de-duplication
RoomToChatsAfterSet(r2c, feishu_chat_id, matrix_room_id) ==
    DictSet(r2c, matrix_room_id,
            dict_fromkeys(Append(ChatsOf(r2c, matrix_room_id), feishu_chat_id)))

SetRoomMapping(feishu_chat_id, matrix_room_id) ==
    /\ chat_to_room' = DictSet(chat_to_room, feishu_chat_id, matrix_room_id)
    /\ room_to_chats' = RoomToChatsAfterSet(room_to_chats, feishu_chat_id, matrix_room_id)
    /\ ret' = Ret("set_room_mapping", <<feishu_chat_id, matrix_room_id>>, None)
    /\ UNCHANGED <<USE_PRIVATE_ROOM, SHARED_ROOM_ID>>

\* a removal that leaves _chat_to_room alone
ChatToRoomKept(c2r, chats) == c2r

\* _chat_to_room.pop(chat_id, None) for each chat id of the popped list
RECURSIVE ChatToRoomAfterForget(_, _)
ChatToRoomAfterForget(c2r, chats) ==
    IF chats = <<>> THEN c2r
    ELSE ChatToRoomAfterForget(DictPop(c2r, Head(chats)), Tail(chats))

ForgetRoom(matrix_room_id) ==
    /\ chat_to_room' = ChatToRoomAfterForget(chat_to_room,
                                              ChatsOf(room_to_chats, matrix_room_id))
    /\ room_to_chats' = DictPop(room_to_chats, matrix_room_id)
    /\ ret' = Ret("forget_room", <<matrix_room_id>>, None)
    /\ UNCHANGED <<USE_PRIVATE_ROOM, SHARED_ROOM_ID>>

----------------------------------------------------------------------------
\* core/delivery_log.py : query_delivery_log

\* the values passed for by_receive_id and by_status: None, the empty string, or a
\* value that entries carry
QueryReceiveIds == {"oc_1", "oc_2"}
ReceiveIdFilters == {NoneStr, ""} \cup QueryReceiveIds
StatusFilters == {NoneStr, "", STATUS_PENDING, STATUS_DELIVERED}
\* by_time_range: None or a tuple (start_ts, end_ts)
QueryTimes == {0, 1}
TimeRanges == {None, <<0, 0>>, <<0, 1>>, <<1, 1>>}
\* limit, with one value past the longest log and one negative value
Limits == -1..(max_entries + 1)

\* items[-limit:] if len(items) > limit else items, by Python's slice rules: -limit
\* counts from the end when negative, from the start when positive, and -0 is 0
TailSlice(items, limit) ==
    IF Len(items) > limit
    THEN LET start == IF -limit < 0
                      THEN (IF Len(items) - limit < 0 THEN 0 ELSE Len(items) - limit)
                      ELSE Min(-limit, Len(items))
         IN SubSeq(items, start + 1, Len(items))
    ELSE items

RECURSIVE SortedByUpdatedAtDesc(_)
\* sorted(items, key=updated_at, reverse=True): stable, equal keys keep their order
SortedByUpdatedAtDesc(items) ==
    IF items = <<>> THEN <<>>
    ELSE LET i == CHOOSE k \in DOMAIN items :
                      /\ \A j \in DOMAIN items : items[j].updated_at <= items[k].updated_at
                      /\ \A j \in 1..(k - 1) : items[j].updated_at < items[k].updated_at
         IN <<items[i]>> \o SortedByUpdatedAtDesc(
                SubSeq(items, 1, i - 1) \o SubSeq(items, i + 1, Len(items)))

\* a filter chain in which only the last filter, the one on status, takes effect
FilteredByStatusOnly(l, delivery_id, by_time_range, by_receive_id, by_status) ==
    LET by_state(e) == Truthy(by_status) => e.status = by_status
    IN SelectSeq(l, by_state)

\* the four filters of query_delivery_log, each applied only to a truthy argument
Filtered(l, delivery_id, by_time_range, by_receive_id, by_status) ==
    LET by_id(e) == delivery_id # NoDeliveryId => e.delivery_id = delivery_id
        by_time(e) == by_time_range # None =>
                          /\ by_time_range[1] <= e.started_at
                          /\ e.started_at <= by_time_range[2]
        by_target(e) == Truthy(by_receive_id) => e.target.receive_id = by_receive_id
        by_state(e) == Truthy(by_status) => e.status = by_status
    IN SelectSeq(SelectSeq(SelectSeq(SelectSeq(l, by_id), by_time), by_target), by_state)

\* the items of query_delivery_log(...); total is their number
query_delivery_log(l, delivery_id, by_time_range, by_receive_id, by_status, limit) ==
    SortedByUpdatedAtDesc(
        TailSlice(Filtered(l, delivery_id, by_time_range, by_receive_id, by_status),
                  limit))

QueryDeliveryLog(delivery_id, by_time_range, by_receive_id, by_status, limit) ==
    /\ ret' = Ret("query_delivery_log",
                  <<delivery_id, by_time_range, by_receive_id, by_status, limit>>,
                  query_delivery_log(log, delivery_id, by_time_range, by_receive_id,
                                     by_status, limit))
    /\ UNCHANGED <<now, ledgerVars>>

\* the entries record_delivery_start and record_delivery_done leave in the ledger:
\* pending entries as started, delivered ones updated at or after their start
QueryEntries ==
    {[NewEntry(did, "approval_request", receive_id, "") EXCEPT
          !.status = st, !.started_at = s, !.updated_at = u] :
        did \in 1..max_entries, receive_id \in QueryReceiveIds,
        st \in {STATUS_PENDING, STATUS_DELIVERED}, s \in QueryTimes, u \in QueryTimes}

\* ledgers of at most _max_entries entries, in the order they were started
QueryLogs ==
    {l \in SeqsUpTo(QueryEntries, max_entries) :
        \A i \in DOMAIN l :
            /\ l[i].delivery_id = i
            /\ l[i].started_at <= l[i].updated_at
            /\ l[i].status = STATUS_PENDING => l[i].started_at = l[i].updated_at
            /\ i > 1 => l[i - 1].started_at <= l[i].started_at}

----------------------------------------------------------------------------
\* Outbound delivery (core/delivery.py, bridge/feishu.py, channel/telegram/bot.py)

DELIVERY_MSGTYPE == "tianshu.delivery"
MsgTypes == {DELIVERY_MSGTYPE, "m.text"}
\* the platforms that have an adapter
Adapters == {"feishu", "telegram"}
\* target.channel of an envelope: absent, an adapter's platform, another platform
Channels == {NoneStr, "feishu", "telegram", "dingtalk"}
\* target.receive_id of an envelope: absent or a chat id
TargetIds == {NoneStr, "oc_1"}
\* what the send primitive returns: None, a falsy value that is not None ("" or
\* 0), a platform message id
SendResults == {NoneStr, "", "om_1"}

Contents == [msgtype : MsgTypes, channel : Channels, receive_id : TargetIds]

is_delivery_event(msgtype, content) ==
    msgtype = DELIVERY_MSGTYPE \/ content.msgtype = DELIVERY_MSGTYPE

\* parse_delivery_event: (semantic_type, target) or None (payload is left out)
parse_delivery_event(content) ==
    IF content.msgtype # DELIVERY_MSGTYPE THEN None
    ELSE IF ~Truthy(content.channel) \/ ~Truthy(content.receive_id) THEN None
    ELSE <<"approval_request",
           [channel |-> content.channel, receive_id |-> content.receive_id]>>

\* an adapter that takes every delivery envelope
AcceptsAll(adapter, msgtype, content, has_provider) ==
    is_delivery_event(msgtype, content)

\* the checks of handle_delivery_event before record_delivery_start; the Telegram
\* adapter also returns False when the bridge has no provider (no token)
Accepts(adapter, msgtype, content, has_provider) ==
    /\ is_delivery_event(msgtype, content)
    /\ parse_delivery_event(content) # None
    /\ parse_delivery_event(content)[2].channel = adapter
    /\ Truthy(parse_delivery_event(content)[2].receive_id)
    /\ adapter = "telegram" => has_provider

\* the ledger after record_delivery_start, the send and record_delivery_done
LogAfterDelivery(l, adapter, content, send_result) ==
    LET entry == [NewEntry(next_uuid, "approval_request", content.receive_id, "")
                    EXCEPT !.target.channel = content.channel]
    IN IF Truthy(send_result)
       THEN LogAfterDone(LogAfterStart(l, entry), next_uuid, STATUS_DELIVERED,
                         IF adapter = "feishu" THEN send_result ELSE NoneStr, NoneStr)
       ELSE LogAfterDone(LogAfterStart(l, entry), next_uuid, STATUS_FAILED, NoneStr,
                         adapter \o "_send_failed")

\* "return msg_id is not None" of the Feishu adapter, "if message_id: return True"
\* of the Telegram adapter
DeliveryReturn(adapter, send_result) ==
    IF adapter = "feishu" THEN send_result # NoneStr ELSE Truthy(send_result)

\* handle_delivery_event of an adapter; ret.args keeps the call and the receive ids
\* of the sends it made
HandleDeliveryEvent(adapter, msgtype, content, has_provider, send_result) ==
    /\ n_starts < MaxStarts
    /\ IF Accepts(adapter, msgtype, content, has_provider)
       THEN /\ log' = LogAfterDelivery(log, adapter, content, send_result)
            /\ next_uuid' = next_uuid + 1
            /\ n_starts' = n_starts + 1
            /\ ret' = Ret("handle_delivery_event",
                          <<adapter, msgtype, content, has_provider, send_result,
                            <<content.receive_id>>>>,
                          DeliveryReturn(adapter, send_result))
       ELSE /\ UNCHANGED <<log, next_uuid, n_starts>>
            /\ ret' = Ret("handle_delivery_event",
                          <<adapter, msgtype, content, has_provider, NoneStr, <<>>>>,
                          FALSE)
    /\ UNCHANGED <<now, n_dones>>

\* where an exception can leave handle_delivery_event: in the renderer (a payload
\* that is not a dict, a card that json.dumps refuses) or in the awaited send (a
\* cancellation, an error the client does not catch)
RaisePoints == {"render", "send"}

\* handle_delivery_event of an adapter left by an exception; neither handler has a
\* try around the renderer or the send. The Feishu handler renders after
\* record_delivery_start, the Telegram handler before it.
HandleDeliveryEventRaises(adapter, msgtype, content, has_provider, at) ==
    LET entry == [NewEntry(next_uuid, "approval_request", content.receive_id, "")
                    EXCEPT !.target.channel = content.channel]
    IN /\ n_starts < MaxStarts
       /\ Accepts(adapter, msgtype, content, has_provider)
       /\ IF adapter = "telegram" /\ at = "render"
          THEN UNCHANGED <<log, next_uuid, n_starts>>
          ELSE /\ log' = LogAfterStart(log, entry)
               /\ next_uuid' = next_uuid + 1
               /\ n_starts' = n_starts + 1
       /\ ret' = Ret("handle_delivery_event raised",
                     <<adapter, msgtype, content, has_provider, at>>, None)
       /\ UNCHANGED <<now, n_dones>>

\* a fan-out that gives up at the first failed send
SendsUntilFailure(chat_ids, results) ==
    LET failed == {i \in DOMAIN chat_ids : ~Truthy(results[i])}
    IN IF failed = {} THEN chat_ids
       ELSE SubSeq(chat_ids, 1, CHOOSE i \in failed : \A j \in failed : i <= j)

\* the receive ids of the send_message calls of handle_matrix_event's for loop,
\* results[i] being what the i-th call returns
FanOutSends(chat_ids, results) == [i \in DOMAIN chat_ids |-> chat_ids[i]]

\* ok after the loop: set by every truthy msg_id
FanOutOk(sends, results) == \E i \in DOMAIN sends : Truthy(results[i])

\* chat_ids of handle_matrix_event: the room's list, else the single first chat id
TargetChats(r2c, room_id) ==
    IF get_feishu_chat_ids(r2c, room_id) # <<>> THEN get_feishu_chat_ids(r2c, room_id)
    ELSE IF Truthy(get_feishu_chat_id(r2c, room_id))
         THEN <<get_feishu_chat_id(r2c, room_id)>>
         ELSE <<>>

\* handle_matrix_event(room_id, ...) of the Feishu bridge for a plain message
HandleMatrixEvent(room_id, results) ==
    /\ DOMAIN results = DOMAIN TargetChats(room_to_chats, room_id)
    /\ \E sends \in {FanOutSends(TargetChats(room_to_chats, room_id), results)} :
          ret' = Ret("handle_matrix_event", <<room_id, results, sends>>,
                     FanOutOk(sends, results))
    /\ UNCHANGED registryVars

----------------------------------------------------------------------------
\* diting_listener.py : DitingApprovalListener._handle_event

\* A message body is a sequence of pieces: words, single spaces, runs of other
\* characters. Pieces written next to each other with no space between them read
\* as one longer word. "pizhun", "pizhun-suoyou", "pizhun-quanbu" and "jujue" stand
\* for the Chinese command words of the source.
ApproveWords == {"pizhun", "approve", "ok", "y", "yes"}
BulkPhrases == {<<"pizhun-suoyou">>, <<"pizhun-quanbu">>,
                <<"approve", " ", "all">>, <<"yes", " ", "all">>}
RejectWords == {"jujue", "reject", "deny", "n", "no"}

\* the pieces bodies are made of here: command words, one of them in capitals, a
\* request id, a word that starts with a letter of [0-9a-f] and one that does not
\* ("ok", "OK", "approve", "all", "no", " ", "3f2a", "but", "zzz")
\* the pieces that are made of characters of [0-9a-f-] only
HexRuns == {"3f2a"}
\* the pieces whose first character is one of [0-9a-f-]
HexInitial == {"3f2a", "approve", "all", "but"}
\* the bodies observed: empty and blank ones, each kind of command bare, padded and
\* in capitals, a command word with an id, and command words followed or preceded
\* by other text
Bodies ==
    {<<>>, <<" ">>, <<"zzz">>,
     <<"ok">>, <<" ", "OK", " ">>, <<"no">>, <<"approve", " ", "all">>,
     <<"ok", " ", "3f2a">>, <<"approve", " ", " ", "3f2a">>, <<"ok", "3f2a">>,
     <<"no", " ", "3f2a">>, <<"ok", " ", "zzz">>, <<"ok", " ", "but", " ", "zzz">>,
     <<"ok", " ", "all">>, <<"zzz", " ", "ok">>}

RECURSIVE lstrip(_)
lstrip(body) ==
    IF body # <<>> /\ Head(body) = " " THEN lstrip(Tail(body)) ELSE body

RECURSIVE rstrip(_)
rstrip(body) ==
    IF body # <<>> /\ body[Len(body)] = " "
    THEN rstrip(SubSeq(body, 1, Len(body) - 1)) ELSE body

strip(body) == rstrip(lstrip(body))

lower(body) == [i \in DOMAIN body |-> IF body[i] = "OK" THEN "ok" ELSE body[i]]

\* re.match(r"^(approve-word)\s+([0-9a-f-]+)$", body): the whole body is the word,
\* spaces and an id
MatchesWordAndId(body) ==
    /\ Len(body) >= 3
    /\ body[1] \in ApproveWords
    /\ body[Len(body)] \in HexRuns
    /\ \A i \in 2..(Len(body) - 1) : body[i] = " "

\* re.match(r"^(approve-word)\s+([0-9a-f-]+)", body): the body starts with the
\* word, spaces, and at least one character of [0-9a-f-]
MatchesWordAndIdPrefix(body) ==
    /\ Len(body) >= 3
    /\ body[1] \in ApproveWords
    /\ body[2] = " "
    /\ lstrip(Tail(body))[1] \in HexInitial

\* the if/elif chain of _handle_event on the stripped, lowercased body:
\* <<approved, is_approve_all>>, approved being None, <<TRUE>> or <<FALSE>>
ParseCommand(body) ==
    IF Len(body) = 1 /\ body[1] \in ApproveWords THEN <<<<TRUE>>, FALSE>>
    ELSE IF body \in BulkPhrases THEN <<<<TRUE>>, TRUE>>
    ELSE IF Len(body) = 1 /\ body[1] \in RejectWords THEN <<<<FALSE>>, FALSE>>
    ELSE IF MatchesWordAndIdPrefix(body) THEN <<<<TRUE>>, FALSE>>
    ELSE <<None, FALSE>>

EventTypes == {"m.room.message", "m.room.member"}
TextOrNot == {"m.text", "m.image"}

\* _handle_event returns before the parse
DroppedEarly(event) ==
    \/ event.type # "m.room.message"
    \/ event.self
    \/ event.msgtype # "m.text"
    \/ lower(strip(event.body)) = <<>>

\* _handle_event(room_id, event): event.self tells that the sender is the
\* listener's own user; ret is NoRet when it returns without calling
\* _process_approval
HandleEvent(room, event, in_reply_to) ==
    /\ observed' = event
    /\ IF DroppedEarly(event) \/ ParseCommand(lower(strip(event.body)))[1] = None
       THEN /\ ret' = NoRet
            /\ UNCHANGED <<now, approvalVars>>
       ELSE ProcessApproval(room, in_reply_to,
                            ParseCommand(lower(strip(event.body)))[2])

----------------------------------------------------------------------------
\* The sync loops event by event: what each poll asks for, and when each awaited
\* handler starts and ends (diting_listener.py 68-128, matrix/client.py 109-119)

\* the handlers that have started and not ended
Pending(t) == {i \in 1..MaxBatch + 1 : <<"start", i>> \in Range(t) /\ <<"end", i>> \notin Range(t)}

\* params of the listener's GET /sync: full_state from first_sync, since only when
\* next_batch is not empty; first tells a poll that no poll preceded, after keeps
\* the token the homeserver handed out last
PollParams ==
    [first |-> last_poll = None,
     full_state |-> first_sync,
     since |-> next_batch,
     after |-> served]

\* what issuing a poll changes in the listener; MatrixClient leaves the cursor to
\* its client library
IssuePoll ==
    IF loop = "diting"
    THEN last_poll' = PollParams /\ first_sync' = FALSE
    ELSE UNCHANGED <<last_poll, first_sync>>

\* a cursor that is kept back until the batch is dispatched
CursorAfterResponse_Deferred(token) == next_batch

\* next_batch = data.get("next_batch", ""), right after the response is read
CursorAfterResponse(token) == IF loop = "diting" THEN token ELSE next_batch

\* a successful poll: the homeserver hands out a new token with the batch
FeedPollOk(batch) ==
    /\ served < MaxSyncs
    /\ PollOk(batch)
    /\ IssuePoll
    /\ served' = served + 1
    /\ next_batch' = CursorAfterResponse(served + 1)
    /\ trace' = <<>>

FeedPollErrorResponse ==
    /\ PollErrorResponse
    /\ IssuePoll
    /\ UNCHANGED <<trace, next_batch, served>>

FeedPollException ==
    /\ PollException
    /\ IssuePoll
    /\ UNCHANGED <<trace, next_batch, served>>

\* a dispatch that does not wait for the handler it started
HandlerStart_NoAwait ==
    /\ pc = "dispatch" /\ pos <= Len(cur_batch)
    /\ HandlerInvoked(loop, cur_batch[pos])
    /\ trace' = Append(trace, <<"start", pos>>)
    /\ pos' = pos + 1
    /\ UNCHANGED <<loop, has_on_disconnect, running, backoff, cur_batch, cause,
                   last_wait, consec_fails, task_end, disconnect_called, pc>>
    /\ UNCHANGED <<next_batch, first_sync, last_poll, served>>

\* "await self._handle_event(room_id, event)" / "await on_event(...)": the handler
\* of the event at pos starts and the loop waits for it
HandlerStart ==
    /\ pc = "dispatch" /\ pos <= Len(cur_batch)
    /\ HandlerInvoked(loop, cur_batch[pos])
    /\ trace' = Append(trace, <<"start", pos>>)
    /\ pc' = "await"
    /\ UNCHANGED <<loop, has_on_disconnect, running, backoff, cur_batch, pos, cause,
                   last_wait, consec_fails, task_end, disconnect_called>>
    /\ UNCHANGED <<next_batch, first_sync, last_poll, served>>

\* a started handler ends, with its network calls done; the loop resumes if it was
\* waiting for this one, in the except clause if the handler raised
HandlerEnd(i) ==
    /\ i \in Pending(trace)
    /\ trace' = Append(trace, <<"end", i>>)
    /\ IF pc = "await" /\ i = pos
       THEN /\ pos' = pos + 1
            /\ IF HandlerRaises(loop, cur_batch[i])
               THEN EnterExcept("handler")
               ELSE /\ pc' = "dispatch"
                    /\ UNCHANGED <<cause, last_wait, disconnect_called>>
       ELSE UNCHANGED <<pc, pos, cause, last_wait, disconnect_called>>
    /\ UNCHANGED <<loop, has_on_disconnect, running, backoff, cur_batch, consec_fails,
                   task_end>>
    /\ UNCHANGED <<next_batch, first_sync, last_poll, served>>

\* MatrixClient steps over an event without body and msgtype
SkipEvent ==
    /\ pc = "dispatch" /\ pos <= Len(cur_batch)
    /\ ~HandlerInvoked(loop, cur_batch[pos])
    /\ pos' = pos + 1
    /\ UNCHANGED <<loop, has_on_disconnect, running, backoff, cur_batch, pc, cause,
                   last_wait, consec_fails, task_end, disconnect_called>>
    /\ UNCHANGED feedVars

----------------------------------------------------------------------------
\* approval/callback.py over the storage backend (storage/backend.py)

ApproverIds == {"ou_1", "ou_2"}
Comments == {NoneStr, "fine"}

\* time.time() moves on between two calls
ClockTick ==
    /\ now < MaxTime
    /\ now' = now + 1
    /\ ret' = NoRet
    /\ UNCHANGED bucketVars

\* backend.get(bucket, key): <<value>> or None
BucketGet(b, key) == IF key \in DOMAIN b THEN <<b[key]>> ELSE None

\* a callback that always writes its record
ResultsOverwritten(b, request_id, rec) == DictSet(b, request_id, rec)

\* the bucket after handle_approval_callback: written only when nothing is stored
ResultsAfterCallback(b, request_id, rec) ==
    IF BucketGet(b, request_id) # None THEN b ELSE DictSet(b, request_id, rec)

\* handle_approval_callback(request_id, approved, approver_id, comment); a reply
\* without the key "idempotent" reads idempotent = FALSE
HandleApprovalCallback(request_id, approved, approver_id, comment) ==
    LET existing == BucketGet(approval_results, request_id)
        rec == [request_id |-> request_id,
                approved |-> approved,
                approver_id |-> approver_id,
                timestamp |-> now,
                comment |-> IF Truthy(comment) THEN comment ELSE ""]
    IN /\ approval_results' = ResultsAfterCallback(approval_results, request_id, rec)
       /\ ret' = Ret("handle_approval_callback", <<request_id, approved, approver_id>>,
                     IF existing # None
                     THEN [ok |-> TRUE, idempotent |-> TRUE, result |-> existing[1]]
                     ELSE [ok |-> TRUE, idempotent |-> FALSE, result |-> rec])
       /\ UNCHANGED <<now, agent_owner, owner_history>>

\* get_approval_result(request_id): <<dict(v)>> or None
GetApprovalResult(request_id) ==
    /\ ret' = Ret("get_approval_result", <<request_id>>,
                  BucketGet(approval_results, request_id))
    /\ UNCHANGED <<now, bucketVars>>

----------------------------------------------------------------------------
\* identity/relationships.py : agent-owner binding and its change history

\* ids passed by callers; only a1 is a registered agent, only o1 and o2 are
\* registered owners
AgentIds == {"a1", "ax"}
OwnerIds == {"o1", "o2", "ox"}
agent_exists(agent_id) == agent_id = "a1"
owner_exists(owner_id) == owner_id \in {"o1", "o2"}

\* get_agent_owner: the owner_id or None
get_agent_owner(b, agent_id) == DictGet(b, agent_id)

\* a history that keeps nothing
HistoryUnchanged(h, agent_id, from_owner, to_owner) == h

\* _append_owner_history: store.set under the key "<agent_id>:<time.time()>"
HistoryAfterAppend(h, agent_id, from_owner, to_owner) ==
    DictSet(h, <<agent_id, now>>,
            [agent_id |-> agent_id, from_owner |-> from_owner,
             to_owner |-> to_owner, at |-> now])

BindAgentOwner(agent_id, owner_id) ==
    /\ IF ~agent_exists(agent_id) \/ ~owner_exists(owner_id)
       THEN /\ UNCHANGED bucketVars
            /\ ret' = Ret("bind_agent_owner", <<agent_id, owner_id>>, FALSE)
       ELSE /\ agent_owner' = DictSet(agent_owner, agent_id, owner_id)
            /\ UNCHANGED <<approval_results, owner_history>>
            /\ ret' = Ret("bind_agent_owner", <<agent_id, owner_id>>, TRUE)
    /\ UNCHANGED now

UpdateAgentOwner(agent_id, new_owner_id) ==
    /\ IF ~agent_exists(agent_id) \/ ~owner_exists(new_owner_id)
       THEN /\ UNCHANGED bucketVars
            /\ ret' = Ret("update_agent_owner", <<agent_id, new_owner_id>>, FALSE)
       ELSE /\ agent_owner' = DictSet(agent_owner, agent_id, new_owner_id)
            /\ owner_history' = HistoryAfterAppend(owner_history, agent_id,
                                     get_agent_owner(agent_owner, agent_id), new_owner_id)
            /\ UNCHANGED approval_results
            /\ ret' = Ret("update_agent_owner", <<agent_id, new_owner_id>>, TRUE)
    /\ UNCHANGED now

UnbindAgentOwner(agent_id) ==
    /\ IF ~agent_exists(agent_id)
       THEN /\ UNCHANGED bucketVars
            /\ ret' = Ret("unbind_agent_owner", <<agent_id>>, FALSE)
       ELSE IF ~Truthy(get_agent_owner(agent_owner, agent_id))
       THEN /\ UNCHANGED bucketVars
            /\ ret' = Ret("unbind_agent_owner", <<agent_id>>, TRUE)
       ELSE /\ agent_owner' = DictPop(agent_owner, agent_id)
            /\ owner_history' = HistoryAfterAppend(owner_history, agent_id,
                                     get_agent_owner(agent_owner, agent_id), NoneStr)
            /\ UNCHANGED approval_results
            /\ ret' = Ret("unbind_agent_owner", <<agent_id>>, TRUE)
    /\ UNCHANGED now

----------------------------------------------------------------------------
\* registration/pairing_code.py

\* the codes _make_code draws (two of the 36^6)
Codes == {"AB12CD", "ZZ99ZZ"}
\* what a human types: nothing, a code as issued, a code in small letters with a
\* blank in front, a code that was never issued
CodeTexts == {NoneStr, "", "AB12CD", " ab12cd", "ZZ99ZZ", "NOPE00"}
Ttls == {0, 1}

\* (pairing_code or "").strip().upper()
NormalizeCode(text) ==
    IF text = NoneStr THEN ""
    ELSE IF text = " ab12cd" THEN "AB12CD"
    ELSE text

\* the id allocate_agent_id hands out for the n-th agent
AgentId(n) == <<"tianshu-agent", n>>

CountOf(d, k) == IF k \in DOMAIN d THEN d[k] ELSE 0

\* a submit that leaves the code where it is
PendingKept(p, code) == p

\* del _pending[code]
PendingAfterSubmit(p, code) == DictPop(p, code)

\* create_pairing_code(owner_id, ttl_seconds); code is what _make_code draws in the
\* end, a code that is not pending
CreatePairingCode(owner_id, ttl_seconds, code) ==
    /\ code \notin DOMAIN pending_codes
    /\ IF ~owner_exists(owner_id)
       THEN /\ UNCHANGED pairingVars
            /\ ret' = Ret("create_pairing_code", <<owner_id>>, [ok |-> FALSE])
       ELSE /\ CountOf(n_created, "AB12CD") + CountOf(n_created, "ZZ99ZZ") < MaxCreates
            /\ pending_codes' = DictSet(pending_codes, code,
                                        [owner_id |-> owner_id,
                                         expires_at |-> now + ttl_seconds])
            /\ n_created' = DictSet(n_created, code, CountOf(n_created, code) + 1)
            /\ UNCHANGED <<n_agents, n_redeemed>>
            /\ ret' = Ret("create_pairing_code", <<owner_id>>,
                          [ok |-> TRUE, pairing_code |-> code,
                           expires_at |-> now + ttl_seconds])
    /\ UNCHANGED <<now, bucketVars>>

\* a failed submit: {"ok": False, "error": ...}
SubmitFailed(text) ==
    Ret("submit_pairing_code", <<text, NormalizeCode(text)>>,
        [ok |-> FALSE, agent_id |-> None, owner_id |-> NoneStr])

\* submit_pairing_code(pairing_code), without a display id
SubmitPairingCode(text) ==
    LET code == NormalizeCode(text) IN
    /\ IF code = "" \/ code \notin DOMAIN pending_codes
       THEN /\ UNCHANGED <<pairingVars, agent_owner>>
            /\ ret' = SubmitFailed(text)
       ELSE IF now > pending_codes[code].expires_at
       THEN /\ pending_codes' = DictPop(pending_codes, code)
            /\ UNCHANGED <<n_agents, n_created, n_redeemed, agent_owner>>
            /\ ret' = SubmitFailed(text)
       ELSE IF ~owner_exists(pending_codes[code].owner_id)
       THEN /\ pending_codes' = DictPop(pending_codes, code)
            /\ n_agents' = n_agents + 1
            /\ UNCHANGED <<n_created, n_redeemed, agent_owner>>
            /\ ret' = SubmitFailed(text)
       ELSE /\ pending_codes' = PendingAfterSubmit(pending_codes, code)
            /\ n_agents' = n_agents + 1
            /\ agent_owner' = DictSet(agent_owner, AgentId(n_agents + 1),
                                      pending_codes[code].owner_id)
            /\ n_redeemed' = DictSet(n_redeemed, code, CountOf(n_redeemed, code) + 1)
            /\ UNCHANGED n_created
            /\ ret' = Ret("submit_pairing_code", <<text, code>>,
                          [ok |-> TRUE, agent_id |-> AgentId(n_agents + 1),
                           owner_id |-> pending_codes[code].owner_id])
    /\ UNCHANGED <<now, approval_results, owner_history>>

----------------------------------------------------------------------------
\* channel_adapter/feishu_render.py and channel/telegram/render.py: the text
\* fallback of the two renderers

\* a payload value: its type, what f"{v}" gives and how long repr(v) is
Hello == [t |-> "str", s |-> "hello", len |-> 7]
\* a string of 600 characters
LongText == [t |-> "str", s |-> "xxx...", len |-> 602]
Items == [t |-> "list", s |-> "[1, 2]", len |-> 6]
Detail == [t |-> "dict", s |-> "{'a': 1}", len |-> 8]
Null == [t |-> "none", s |-> "None", len |-> 4]
PayloadValues == {Hello, LongText, Items, Detail, Null}
PayloadKeys == {"text", "title", "body", "note"}
Payloads == UNION {[ks -> PayloadValues] : ks \in SUBSET PayloadKeys}
RenderedTypes == {"text", "approval_result", "approval_request", "custom_type"}

\* payload.get(k)
PayloadGet(payload, k) == IF k \in DOMAIN payload THEN payload[k] ELSE Null

\* len(repr(k)) of the keys used
KeyReprLen(k) == IF k = "title" THEN 7 ELSE 6

RECURSIVE ItemsLen(_, _)
ItemsLen(payload, ks) ==
    IF ks = {} THEN 0
    ELSE LET k == CHOOSE x \in ks : TRUE
         IN KeyReprLen(k) + 2 + payload[k].len + ItemsLen(payload, ks \ {k})

\* len(str(payload)): braces, "key: value" items, ", " between them
StrLen(payload) ==
    LET n == Cardinality(DOMAIN payload)
    IN 2 + ItemsLen(payload, DOMAIN payload) + (IF n = 0 THEN 0 ELSE 2 * (n - 1))

\* str(payload)[:500], told by the payload and the number of characters kept
Truncated(payload) == [kind |-> "str", of |-> payload, len |-> Min(StrLen(payload), 500)]

\* SEMANTIC_DISPLAY_KEYS.get(semantic_type, ["text", "title", "body"]) of
\* feishu_render.py, for the types used
FeishuDisplayKeys(semantic_type) ==
    IF semantic_type = "text" THEN <<"text">>
    ELSE IF semantic_type = "approval_result" THEN <<"request_id", "approved", "comment">>
    ELSE IF semantic_type = "approval_request" THEN <<"title", "description">>
    ELSE <<"text", "title", "body">>

\* the same table of telegram/render.py
TelegramDisplayKeys(semantic_type) ==
    IF semantic_type = "text" THEN <<"text">>
    ELSE IF semantic_type = "approval_result" THEN <<"request_id", "approved", "comment">>
    ELSE IF semantic_type = "approval_request" THEN <<"title", "description">>
    ELSE <<"text", "title", "body">>

\* the types with a registered renderer
FeishuRenderers == {"approval_request"}
TelegramRenderers == {"approval_request", "approval_result"}

\* a line that shows every value as it is
LineRaw(k, v) == <<k, ": ", v.s>>

\* f"{k}: (见详情)" for a list or a dict, f"{k}: {v}" otherwise
LineOf(k, v) == IF v.t \in {"list", "dict"} THEN <<k, ": ", "(见详情)">> ELSE <<k, ": ", v.s>>

\* the loop over the display keys
RECURSIVE FallbackParts(_, _)
FallbackParts(keys, payload) ==
    IF keys = <<>> THEN <<>>
    ELSE LET k == Head(keys)
             v == PayloadGet(payload, k)
         IN (IF v.t = "none" THEN <<>> ELSE <<LineOf(k, v)>>)
                \o FallbackParts(Tail(keys), payload)

\* "\n".join(parts) if parts else str(payload)[:500]
FallbackText(parts, payload) ==
    IF parts # <<>> THEN [kind |-> "lines", lines |-> parts] ELSE Truncated(payload)

semantic_to_feishu_message(semantic_type, payload) ==
    IF semantic_type \in FeishuRenderers
    THEN [msg_type |-> "interactive", card_of |-> semantic_type]
    ELSE [msg_type |-> "text",
          text |-> FallbackText(FallbackParts(FeishuDisplayKeys(semantic_type), payload),
                                payload)]

semantic_to_telegram_message(semantic_type, payload) ==
    IF semantic_type \in TelegramRenderers
    THEN [rendered_by |-> semantic_type]
    ELSE [text |-> FallbackText(FallbackParts(TelegramDisplayKeys(semantic_type), payload),
                                payload),
          buttons |-> <<>>]

\* one payload rendered by both renderers
RenderBoth(semantic_type, payload) ==
    /\ ret' = Ret("render", <<semantic_type, payload>>,
                  [feishu |-> semantic_to_feishu_message(semantic_type, payload),
                   telegram |-> semantic_to_telegram_message(semantic_type, payload)])
    /\ UNCHANGED <<now, approvalVars, ledgerVars, syncVars, registryVars, handlerVars,
                   feedVars, bucketVars, pairingVars, inboundVars, listenerVars>>

----------------------------------------------------------------------------
\* A delivery envelope on its way from a polled batch to the adapters
\* (matrix/client.py _sync_loop, bridge/feishu.py make_matrix_sync_callback)

\* build_delivery_content(semantic_type, target, payload)
build_delivery_content(channel, receive_id) ==
    [msgtype |-> DELIVERY_MSGTYPE, channel |-> channel, receive_id |-> receive_id]

\* the content _sync_loop hands to on_event: {"body": body, "event_id": ...}, which
\* has no msgtype, no semantic_type, no target and no payload
ForwardedContent(content) ==
    [msgtype |-> NoneStr, channel |-> NoneStr, receive_id |-> NoneStr]

\* on_matrix_event for a polled envelope: the Feishu handler, then the Telegram
\* handler when there is a Telegram bridge; at most one of them accepts, the
\* target naming one channel. exposed tells whether the polled event object has
\* the attributes body and msgtype; the loop skips an event that lacks one.
SyncEnvelope(channel, receive_id, exposed, has_telegram, has_provider, send_result) ==
    LET envelope == build_delivery_content(channel, receive_id)
        content == ForwardedContent(envelope)
        takers == {a \in Adapters :
                     /\ exposed
                     /\ is_delivery_event(envelope.msgtype, content)
                     /\ a = "telegram" => has_telegram
                     /\ Accepts(a, envelope.msgtype, content, has_provider)}
    IN /\ n_starts < MaxStarts
       /\ IF takers # {}
          THEN /\ log' = LogAfterDelivery(log, CHOOSE a \in takers : TRUE, content,
                                          send_result)
               /\ next_uuid' = next_uuid + 1
               /\ n_starts' = n_starts + 1
          ELSE UNCHANGED <<log, next_uuid, n_starts>>
       /\ ret' = Ret("sync_envelope",
                     <<envelope, exposed, IF exposed THEN content ELSE None, takers>>,
                     None)
       /\ UNCHANGED <<now, n_dones>>

----------------------------------------------------------------------------
\* bridge/feishu.py : handle_feishu_event, call by call and await by await, and the
\* bridge's sync loop seeing what the calls relayed

\* the calls that may be in flight together
Tasks == {1, 2}
\* the chats inbound messages come from
InboundChats == {"A", "B"}
\* the room ids create_room returns, one after the other
NewRooms == <<"n1", "n2", "n3", "n4", "n5">>

Idle == [pc |-> "idle", chat_id |-> NoneStr, room_id |-> NoneStr]

\* the call returns
ReturnFeishuEvent(t, chat_id, room_id, val) ==
    /\ calls' = [calls EXCEPT ![t] = Idle]
    /\ ret' = Ret("handle_feishu_event", <<t, chat_id, room_id>>, val)

\* handle_feishu_event up to its first await: the payload is parsed and the room
\* looked up; parsed tells whether parse_feishu_event found a message
BeginFeishuEvent(t, chat_id, parsed, create_room_if_missing) ==
    LET room_id == get_matrix_room_id(USE_PRIVATE_ROOM, SHARED_ROOM_ID, chat_to_room,
                                      chat_id)
    IN /\ calls[t].pc = "idle"
       /\ n_inbound < MaxInbound
       /\ n_inbound' = n_inbound + 1
       /\ IF ~parsed
          THEN ReturnFeishuEvent(t, chat_id, NoneStr, FALSE)
          ELSE IF ~Truthy(room_id) /\ create_room_if_missing
          THEN /\ calls' = [calls EXCEPT ![t] = [pc |-> "create", chat_id |-> chat_id,
                                                 room_id |-> room_id]]
               /\ ret' = NoRet
          ELSE IF ~Truthy(room_id)
          THEN ReturnFeishuEvent(t, chat_id, NoneStr, FALSE)
          ELSE /\ calls' = [calls EXCEPT ![t] = [pc |-> "send", chat_id |-> chat_id,
                                                 room_id |-> room_id]]
               /\ ret' = NoRet
       /\ UNCHANGED <<chat_to_room, room_to_chats, rooms_made, relayed, n_observed>>

\* create_room returns: a new room, which is bound to the chat, or None
CreateRoomDone(t, ok) ==
    LET chat_id == calls[t].chat_id
        room_id == NewRooms[Len(rooms_made) + 1]
    IN /\ calls[t].pc = "create"
       /\ IF ok
          THEN /\ rooms_made' = Append(rooms_made, [room_id |-> room_id, chat_id |-> chat_id])
               /\ chat_to_room' = DictSet(chat_to_room, chat_id, room_id)
               /\ room_to_chats' = RoomToChatsAfterSet(room_to_chats, chat_id, room_id)
               /\ calls' = [calls EXCEPT ![t].pc = "send", ![t].room_id = room_id]
               /\ ret' = NoRet
          ELSE /\ ReturnFeishuEvent(t, chat_id, NoneStr, FALSE)
               /\ UNCHANGED <<rooms_made, chat_to_room, room_to_chats>>
       /\ UNCHANGED <<relayed, n_observed, n_inbound>>

\* _send_custom returns: an event id or None
SendCustomDone(t, ok) ==
    /\ calls[t].pc = "send"
    /\ relayed' = IF ok THEN Append(relayed, [room_id |-> calls[t].room_id,
                                              chat_id |-> calls[t].chat_id])
                  ELSE relayed
    /\ ReturnFeishuEvent(t, calls[t].chat_id, calls[t].room_id, ok)
    /\ UNCHANGED <<chat_to_room, room_to_chats, rooms_made, n_observed, n_inbound>>

\* the sync loop polls the next relayed message (an m.text event with a body) and
\* on_matrix_event hands it to handle_matrix_event; exposed tells whether the polled
\* event object has the attributes body and msgtype, the loop skipping an event that
\* lacks one. ret.args keeps the room, the chat the message came from and the chats
\* it was sent to
ObserveRelayed(exposed, results) ==
    /\ n_observed < Len(relayed)
    /\ LET ev == relayed[n_observed + 1]
           chat_ids == IF exposed THEN TargetChats(room_to_chats, ev.room_id) ELSE <<>>
       IN /\ DOMAIN results = DOMAIN chat_ids
          /\ ret' = Ret("on_matrix_event",
                        <<ev.room_id, ev.chat_id, FanOutSends(chat_ids, results)>>,
                        FanOutOk(FanOutSends(chat_ids, results), results))
    /\ n_observed' = n_observed + 1
    /\ UNCHANGED <<chat_to_room, room_to_chats, calls, rooms_made, relayed, n_inbound>>

----------------------------------------------------------------------------
\* diting_listener.py : start_diting_listener, stop_diting_listener and the
\* listener they create

\* the loop of a listener that was just created and whose task was not
LoopNotStarted ==
    /\ pc' = "not_started"
    /\ running' = FALSE
    /\ UNCHANGED <<backoff, cur_batch, pos, cause, last_wait, consec_fails, task_end,
                   disconnect_called>>

\* DitingApprovalListener.start() of a new listener with its configuration:
\* _running = True and the task of a new _sync_loop
LoopStartedAfresh ==
    /\ pc' = "poll"
    /\ running' = TRUE
    /\ backoff' = base_backoff
    /\ cur_batch' = <<>>
    /\ pos' = 1
    /\ cause' = "none"
    /\ last_wait' = 0
    /\ consec_fails' = 0
    /\ task_end' = "none"
    /\ disconnect_called' = FALSE

\* start_diting_listener()
StartDitingListener ==
    /\ IF listener_set
       THEN /\ ret' = Ret("start_diting_listener", <<>>, TRUE)
            /\ UNCHANGED <<pc, running, backoff, cur_batch, pos, cause, last_wait,
                           consec_fails, task_end, disconnect_called, n_loops>>
       ELSE IF ~configured
       THEN /\ LoopNotStarted
            /\ ret' = Ret("start_diting_listener", <<>>, FALSE)
            /\ UNCHANGED n_loops
       ELSE /\ LoopStartedAfresh
            /\ n_loops' = n_loops + 1
            /\ ret' = Ret("start_diting_listener", <<>>, TRUE)
    /\ listener_set' = TRUE
    /\ UNCHANGED configured

\* stop_diting_listener(): the listener's stop(), then _listener = None
StopDitingListener ==
    /\ IF listener_set /\ pc \notin {"not_started", "done"}
       THEN /\ running' = FALSE
            /\ task_end' = TaskEndOnCancel(pc, cause)
            /\ pc' = "done"
            /\ n_loops' = n_loops - 1
            /\ UNCHANGED <<backoff, cur_batch, pos, cause, last_wait, consec_fails,
                           disconnect_called>>
       ELSE /\ running' = FALSE
            /\ UNCHANGED <<pc, backoff, cur_batch, pos, cause, last_wait, consec_fails,
                           task_end, disconnect_called, n_loops>>
    /\ listener_set' = FALSE
    /\ ret' = Ret("stop_diting_listener", <<>>, None)
    /\ UNCHANGED configured

----------------------------------------------------------------------------
\* Specifications

vars == <<now, ret, store, pending_queue, queue_keys, n_records, resolved,
          log, next_uuid, n_starts, n_dones,
          loop, has_on_disconnect, pc, running, backoff, cur_batch, pos, cause,
          last_wait, consec_fails, task_end, disconnect_called,
          USE_PRIVATE_ROOM, SHARED_ROOM_ID, chat_to_room, room_to_chats, observed,
          trace, next_batch, first_sync, last_poll, served,
          approval_results, agent_owner, owner_history,
          pending_codes, n_agents, n_created, n_redeemed,
          calls, rooms_made, relayed, n_observed, n_inbound,
          configured, listener_set, n_loops>>

InitApproval ==
    /\ now = 0
    /\ ret = NoRet
    /\ store = <<>>
    /\ pending_queue = [r \in Rooms |-> <<>>]
    /\ queue_keys = <<>>
    /\ n_records = 0
    /\ resolved = {}

InitLedger ==
    /\ log = <<>>
    /\ next_uuid = 1
    /\ n_starts = 0
    /\ n_dones = 0

\* no loop task created yet
InitLoop ==
    /\ pc = "not_started"
    /\ running = FALSE
    /\ backoff = base_backoff
    /\ cur_batch = <<>>
    /\ pos = 1
    /\ cause = "none"
    /\ last_wait = 0
    /\ consec_fails = 0
    /\ task_end = "none"
    /\ disconnect_called = FALSE

\* both dictionaries of room_manager empty; no event handled yet
InitRegistry ==
    /\ listener_set = FALSE
    /\ n_loops = 0
    /\ calls = [t \in {1, 2} |-> [pc |-> "idle", chat_id |-> "None", room_id |-> "None"]]
    /\ rooms_made = <<>>
    /\ relayed = <<>>
    /\ n_observed = 0
    /\ n_inbound = 0
    /\ pending_codes = <<>>
    /\ n_agents = 0
    /\ n_created = <<>>
    /\ n_redeemed = <<>>
    /\ observed = None
    /\ trace = <<>>
    /\ next_batch = 0
    /\ first_sync = TRUE
    /\ last_poll = None
    /\ served = 0
    /\ approval_results = <<>>
    /\ agent_owner = <<>>
    /\ owner_history = <<>>
    /\ chat_to_room = <<>>
    /\ room_to_chats = <<>>

Init ==
    /\ InitApproval
    /\ InitLedger
    /\ InitLoop
    /\ InitRegistry
    /\ configured = FALSE
    /\ loop = "matrix"
    /\ has_on_disconnect = FALSE
    /\ USE_PRIVATE_ROOM = FALSE
    /\ SHARED_ROOM_ID = NoneStr

\* either loop, MatrixClient with or without an on_disconnect callback
InitSync ==
    /\ InitApproval
    /\ InitLedger
    /\ InitLoop
    /\ InitRegistry
    /\ configured = FALSE
    /\ loop \in Loops
    /\ has_on_disconnect \in BOOLEAN
    /\ USE_PRIVATE_ROOM = FALSE
    /\ SHARED_ROOM_ID = NoneStr

\* any configuration of the addressing mode
InitRooms ==
    /\ InitApproval
    /\ InitLedger
    /\ InitLoop
    /\ InitRegistry
    /\ configured = FALSE
    /\ loop = "matrix"
    /\ has_on_disconnect = FALSE
    /\ USE_PRIVATE_ROOM \in BOOLEAN
    /\ SHARED_ROOM_ID \in SharedRoomIds

\* what each part of the model leaves alone
PairingOnly ==
    UNCHANGED <<approvalVars, ledgerVars, syncVars, registryVars, handlerVars, feedVars,
                         inboundVars,
                         listenerVars>>
InboundOnly ==
    UNCHANGED <<now, approvalVars, ledgerVars, syncVars, USE_PRIVATE_ROOM, SHARED_ROOM_ID,
                handlerVars, feedVars, bucketVars, pairingVars,
                         listenerVars>>
StartOnly ==
    UNCHANGED <<now, approvalVars, ledgerVars, loop, has_on_disconnect, registryVars,
                handlerVars, feedVars, bucketVars, pairingVars, inboundVars>>
StoreOnly == UNCHANGED <<ledgerVars, syncVars, registryVars, handlerVars, feedVars,
                         bucketVars,
                         pairingVars,
                         inboundVars,
                         listenerVars>>
LedgerOnly == UNCHANGED <<approvalVars, syncVars, registryVars, handlerVars, feedVars,
                         bucketVars,
                         pairingVars,
                         inboundVars,
                         listenerVars>>
SyncOnly == UNCHANGED <<now, ret, approvalVars, ledgerVars, registryVars, handlerVars, feedVars,
                         bucketVars,
                         pairingVars,
                         inboundVars,
                         listenerVars>>
RegistryOnly == UNCHANGED <<now, approvalVars, ledgerVars, syncVars, handlerVars, feedVars,
                         bucketVars,
                         pairingVars,
                         inboundVars,
                         listenerVars>>
HandlerOnly == UNCHANGED <<ledgerVars, syncVars, registryVars, feedVars,
                         bucketVars,
                         pairingVars,
                         inboundVars,
                         listenerVars>>
BucketOnly ==
    UNCHANGED <<approvalVars, ledgerVars, syncVars, registryVars, handlerVars, feedVars,
                         pairingVars,
                         inboundVars,
                         listenerVars>>
FeedOnly == UNCHANGED <<now, ret, approvalVars, ledgerVars, registryVars, handlerVars,
                         bucketVars,
                         pairingVars,
                         inboundVars,
                         listenerVars>>

\* the approval correlation store under any sequence of calls of its functions
NextStore ==
    \/ Tick /\ UNCHANGED approvalVars /\ StoreOnly
    \/ \E room \in Rooms, event \in {NextEvent, NoEvent}, request_id \in RequestIds,
          url \in Urls :
          RecordApproval(room, event, request_id, url) /\ StoreOnly
    \/ \E room \in Rooms, event \in Events : LookupByReplyTo(room, event) /\ StoreOnly
    \/ \E room \in Rooms, event \in Events :
          ConsumeApprovalReply(room, event) /\ StoreOnly
    \/ \E room \in Rooms, cheq_id \in RequestIds :
          RemoveFromPending(room, cheq_id) /\ StoreOnly

SpecStore == Init /\ [][NextStore]_vars

\* the events a reply can refer to: those sent so far
SentEvents == 1..n_records

\* the store as the program drives it: main.py records the approval messages it
\* has sent (it only does with an event id, a room and a request id), the reply
\* listener processes the replies
NextListener ==
    \/ Tick /\ UNCHANGED approvalVars /\ StoreOnly
    \/ \E room \in Rooms, request_id \in RequestIds, url \in Urls :
          RecordApproval(room, NextEvent, request_id, url) /\ StoreOnly
    \/ \E room \in Rooms, in_reply_to \in SentEvents \cup {NoEvent},
          is_approve_all \in BOOLEAN :
          ProcessApproval(room, in_reply_to, is_approve_all) /\ StoreOnly

SpecListener == Init /\ [][NextListener]_vars

\* the listener when every reply it processes is an approve_all
NextBulk ==
    \/ Tick /\ UNCHANGED approvalVars /\ StoreOnly
    \/ \E room \in Rooms, request_id \in RequestIds, url \in Urls :
          RecordApproval(room, NextEvent, request_id, url) /\ StoreOnly
    \/ \E room \in Rooms, in_reply_to \in SentEvents \cup {NoEvent} :
          ProcessApproval(room, in_reply_to, TRUE) /\ StoreOnly

SpecBulk == Init /\ [][NextBulk]_vars

\* the delivery ledger. No operation of it reads a timestamp, and the clock stands
\* still here
NextLedger ==
    \/ \E semantic_type \in SemanticTypes, receive_id \in ReceiveIds,
          delivery_id \in StartIds :
          RecordDeliveryStart(semantic_type, receive_id, "", delivery_id) /\ LedgerOnly
    \/ \E delivery_id \in KnownIds, status \in TerminalStatuses,
          feishu_message_id \in MessageIds \cup {NoneStr},
          error_reason \in ErrorReasons \cup {NoneStr} :
          RecordDeliveryDone(delivery_id, status, feishu_message_id, error_reason)
          /\ LedgerOnly

SpecLedger == Init /\ [][NextLedger]_vars

\* a ledger left by earlier deliveries
InitQuery ==
    /\ now = 1
    /\ ret = NoRet
    /\ store = <<>>
    /\ pending_queue = [r \in Rooms |-> <<>>]
    /\ queue_keys = <<>>
    /\ n_records = 0
    /\ resolved = {}
    /\ InitLoop
    /\ InitRegistry
    /\ configured = FALSE
    /\ loop = "matrix"
    /\ has_on_disconnect = FALSE
    /\ USE_PRIVATE_ROOM = FALSE
    /\ SHARED_ROOM_ID = NoneStr
    /\ log \in QueryLogs
    /\ next_uuid = Len(log) + 1
    /\ n_starts = Len(log)
    /\ n_dones = Cardinality({i \in DOMAIN log : log[i].status = STATUS_DELIVERED})

\* one query of a ledger: a query leaves the ledger as it is, so a second query of
\* the same ledger is answered as a first one and is not taken
NextQuery ==
    /\ ret.op # "query_delivery_log"
    /\ \E delivery_id \in 0..max_entries, by_time_range \in TimeRanges,
          by_receive_id \in ReceiveIdFilters, by_status \in StatusFilters,
          limit \in Limits :
           QueryDeliveryLog(delivery_id, by_time_range, by_receive_id, by_status, limit)
           /\ LedgerOnly

SpecQuery == InitQuery /\ [][NextQuery]_vars

\* the sync loops
NextSync ==
    \/ StartLoop /\ SyncOnly
    \/ \E batch \in Batches : PollOk(batch) /\ SyncOnly
    \/ PollErrorResponse /\ SyncOnly
    \/ PollException /\ SyncOnly
    \/ DispatchEvent /\ SyncOnly
    \/ FinishBatch /\ SyncOnly
    \/ Wake /\ SyncOnly
    \/ StopLoop /\ SyncOnly

SpecSync == InitSync /\ [][NextSync]_vars

\* the listener with or without its configuration
InitStart ==
    /\ InitApproval
    /\ InitLedger
    /\ InitLoop
    /\ InitRegistry
    /\ configured \in BOOLEAN
    /\ loop = "diting"
    /\ has_on_disconnect = FALSE
    /\ USE_PRIVATE_ROOM = FALSE
    /\ SHARED_ROOM_ID = NoneStr

\* the listener started and stopped by the module's functions while its loop runs
NextStart ==
    \/ StartDitingListener /\ StartOnly
    \/ StopDitingListener /\ StartOnly
    \/ \E batch \in Batches : PollOk(batch) /\ SyncOnly
    \/ PollErrorResponse /\ SyncOnly
    \/ PollException /\ SyncOnly
    \/ DispatchEvent /\ SyncOnly
    \/ FinishBatch /\ SyncOnly
    \/ Wake /\ SyncOnly

SpecStart == InitStart /\ [][NextStart]_vars

\* the room registry under any sequence of bindings and removals
NextRooms ==
    \/ \E feishu_chat_id \in ChatIds, matrix_room_id \in Rooms :
          SetRoomMapping(feishu_chat_id, matrix_room_id) /\ RegistryOnly
    \/ \E matrix_room_id \in Rooms : ForgetRoom(matrix_room_id) /\ RegistryOnly

SpecRooms == InitRooms /\ [][NextRooms]_vars

\* the Feishu bridge relaying the messages of rooms whose bindings change
NextFanOut ==
    \/ \E feishu_chat_id \in ChatIds, matrix_room_id \in Rooms :
          SetRoomMapping(feishu_chat_id, matrix_room_id) /\ RegistryOnly
    \/ \E matrix_room_id \in Rooms : ForgetRoom(matrix_room_id) /\ RegistryOnly
    \/ \E room_id \in Rooms, n \in 0..Cardinality(ChatIds) :
       \E results \in [1..n -> SendResults] :
          HandleMatrixEvent(room_id, results) /\ RegistryOnly

SpecFanOut == Init /\ [][NextFanOut]_vars

\* the listener handling the events of a room in which approvals are pending
NextIntent ==
    \/ RecordApproval("r1", NextEvent, "q1", "gw/") /\ StoreOnly
    \/ \E event \in [type : EventTypes, self : BOOLEAN, msgtype : TextOrNot,
                      body : Bodies],
          in_reply_to \in SentEvents \cup {NoEvent} :
          HandleEvent("r1", event, in_reply_to) /\ HandlerOnly

SpecIntent == Init /\ [][NextIntent]_vars

\* either sync loop, followed poll by poll and handler by handler
NextFeed ==
    \/ StartLoop /\ UNCHANGED feedVars /\ FeedOnly
    \/ \E batch \in Batches : FeedPollOk(batch) /\ FeedOnly
    \/ FeedPollErrorResponse /\ FeedOnly
    \/ FeedPollException /\ FeedOnly
    \/ HandlerStart /\ FeedOnly
    \/ \E i \in 1..MaxBatch : HandlerEnd(i) /\ FeedOnly
    \/ SkipEvent /\ FeedOnly
    \/ FinishBatch /\ UNCHANGED feedVars /\ FeedOnly
    \/ Wake /\ UNCHANGED feedVars /\ FeedOnly
    \/ StopLoop /\ UNCHANGED feedVars /\ FeedOnly

SpecFeed == InitSync /\ [][NextFeed]_vars

\* approval callbacks arriving and results being read while time passes
NextCallback ==
    \/ ClockTick /\ BucketOnly
    \/ \E request_id \in RequestIds, approved \in BOOLEAN, approver_id \in ApproverIds,
          comment \in Comments :
          HandleApprovalCallback(request_id, approved, approver_id, comment) /\ BucketOnly
    \/ \E request_id \in RequestIds : GetApprovalResult(request_id) /\ BucketOnly

SpecCallback == Init /\ [][NextCallback]_vars

\* agents bound, moved and unbound while time passes
NextOwners ==
    \/ ClockTick /\ BucketOnly
    \/ \E agent_id \in AgentIds, owner_id \in OwnerIds :
          BindAgentOwner(agent_id, owner_id) /\ BucketOnly
    \/ \E agent_id \in AgentIds, new_owner_id \in OwnerIds :
          UpdateAgentOwner(agent_id, new_owner_id) /\ BucketOnly
    \/ \E agent_id \in AgentIds : UnbindAgentOwner(agent_id) /\ BucketOnly

SpecOwners == Init /\ [][NextOwners]_vars

\* pairing codes issued and typed in while time passes
NextPairing ==
    \/ ClockTick /\ UNCHANGED pairingVars /\ PairingOnly
    \/ \E owner_id \in OwnerIds, ttl_seconds \in Ttls, code \in Codes :
          CreatePairingCode(owner_id, ttl_seconds, code) /\ PairingOnly
    \/ \E text \in CodeTexts : SubmitPairingCode(text) /\ PairingOnly

SpecPairing == Init /\ [][NextPairing]_vars

\* inbound messages handled by up to two calls at a time, and the sync loop
\* seeing the relayed messages
NextInbound ==
    \/ \E t \in Tasks, chat_id \in InboundChats, parsed \in BOOLEAN,
          create_room_if_missing \in BOOLEAN :
          BeginFeishuEvent(t, chat_id, parsed, create_room_if_missing) /\ InboundOnly
    \/ \E t \in Tasks, ok \in BOOLEAN : CreateRoomDone(t, ok) /\ InboundOnly
    \/ \E t \in Tasks, ok \in BOOLEAN : SendCustomDone(t, ok) /\ InboundOnly
    \/ \E exposed \in BOOLEAN, n \in 0..Cardinality(InboundChats) :
       \E results \in [1..n -> {NoneStr, "om_1"}] :
          ObserveRelayed(exposed, results) /\ InboundOnly

SpecInbound == InitRooms /\ [][NextInbound]_vars

\* one payload of any semantic type rendered for both channels
NextRender ==
    /\ ret.op # "render"
    /\ \E semantic_type \in RenderedTypes, payload \in Payloads :
           RenderBoth(semantic_type, payload)

SpecRender == Init /\ [][NextRender]_vars

\* the delivery handlers of both adapters on any envelope, whatever the send returns
NextDelivery ==
    \E adapter \in Adapters, msgtype \in MsgTypes, content \in Contents,
       has_provider \in BOOLEAN, send_result \in SendResults :
        HandleDeliveryEvent(adapter, msgtype, content, has_provider, send_result)
        /\ LedgerOnly

SpecDelivery == Init /\ [][NextDelivery]_vars

\* the delivery handlers returning or being left by an exception
NextOutcome ==
    \/ NextDelivery
    \/ \E adapter \in Adapters, msgtype \in MsgTypes, content \in Contents,
          has_provider \in BOOLEAN, at \in RaisePoints :
          HandleDeliveryEventRaises(adapter, msgtype, content, has_provider, at)
          /\ LedgerOnly

SpecOutcome == Init /\ [][NextOutcome]_vars

\* envelopes handed to the adapters directly and by way of the sync loop
NextEnvelope ==
    \/ NextDelivery
    \/ \E channel \in Channels, receive_id \in TargetIds, exposed \in BOOLEAN,
          has_telegram \in BOOLEAN, has_provider \in BOOLEAN,
          send_result \in SendResults :
          /\ SyncEnvelope(channel, receive_id, exposed, has_telegram, has_provider,
                          send_result)
          /\ LedgerOnly

SpecEnvelope == Init /\ [][NextEnvelope]_vars

Next ==
    \/ NextStore \/ NextListener \/ NextLedger \/ NextSync \/ NextRooms
    \/ NextDelivery \/ NextFanOut \/ NextQuery \/ NextIntent
    \/ NextFeed \/ NextCallback \/ NextOwners \/ NextPairing \/ NextRender \/ NextEnvelope \/ NextInbound \/ NextOutcome \/ NextStart

Spec == Init /\ [][Next]_vars

----------------------------------------------------------------------------
\* Properties

\* the request ids of the resolution calls an operation made
CalledIds(r) == IF r.op = "_process_approval" THEN r.val ELSE <<>>

InStore(room, request_id) ==
    \E key \in DOMAIN store : key[1] = room /\ store[key].request_id = request_id

InQueue(room, request_id) ==
    \E i \in DOMAIN pending_queue[room] : pending_queue[room][i].request_id = request_id

\* C1: the correlation map and the per-room queues hold the same pending requests:
\* a request is in the map for room R iff it is in R's queue.
C1_MapAndQueueAgree ==
    \A room \in Rooms, request_id \in RequestIds :
        InStore(room, request_id) <=> InQueue(room, request_id)

\* C2: once a request has been resolved successfully (and not been recorded anew),
\* no later reply causes another resolution call for its id.
C2_ResolvedNeverCalledAgain ==
    [][\A i \in DOMAIN CalledIds(ret') : CalledIds(ret')[i] \notin resolved]_vars

\* the (cheq_id, url) pairs of the entries of a queue not older than the TTL at t
FreshPairsOf(q, t) == {Pair(q[i]) : i \in {j \in DOMAIN q : t - q[j].created <= TTL_SEC}}

\* every pair some read path returns at time t
ReadPairs(st, pq, keys, t) ==
    ({lookup_by_reply_to(st, t, room, event) : room \in Rooms, event \in Events}
     \cup {get_last_pending(pq, t, room) : room \in Rooms}
     \cup UNION {Range(get_all_pending(pq, t, room)) : room \in Rooms}
     \cup {get_last_pending_global(keys, pq, t)}
     \cup Range(get_all_pending_global(keys, pq, t))) \ {None}

\* what each read path returns is backed by an entry within the TTL
C3_ReadsAreFresh ==
    /\ \A room \in Rooms, event \in Events :
          LET v == lookup_by_reply_to(store, now, room, event) IN
          v # None => /\ <<room, event>> \in DOMAIN store
                      /\ now - store[<<room, event>>].created <= TTL_SEC
                      /\ v = Pair(store[<<room, event>>])
    /\ \A room \in Rooms :
          /\ Range(get_all_pending(pending_queue, now, room))
                \subseteq FreshPairsOf(pending_queue[room], now)
          /\ {get_last_pending(pending_queue, now, room)} \ {None}
                \subseteq FreshPairsOf(pending_queue[room], now)
    /\ Range(get_all_pending_global(queue_keys, pending_queue, now))
          \subseteq UNION {FreshPairsOf(pending_queue[room], now) : room \in Rooms}
    /\ {get_last_pending_global(queue_keys, pending_queue, now)} \ {None}
          \subseteq UNION {FreshPairsOf(pending_queue[room], now) : room \in Rooms}

\* nothing comes back: unless a record is made, a step adds no pair to what the
\* read paths return
C3_AbsentStaysAbsent ==
    n_records' = n_records =>
        ReadPairs(store', pending_queue', queue_keys', now')
            \subseteq ReadPairs(store, pending_queue, queue_keys, now)

\* C3: an entry older than the TTL is returned by no read path (lookup_by_reply_to,
\* get_last_pending, get_all_pending, get_last_pending_global,
\* get_all_pending_global) although it was never removed, and once absent from the
\* reads it stays absent.
C3_ExpiredNeverReturned == []C3_ReadsAreFresh /\ [][C3_AbsentStaysAbsent]_vars

\* an expired entry still sits in the map and in its room's queue, and no read
\* path returns it
C3_Witness ==
    \E key \in DOMAIN store :
        /\ now - store[key].created > TTL_SEC
        /\ \E i \in DOMAIN pending_queue[key[1]] :
              pending_queue[key[1]][i] = store[key]
        /\ ReadPairs(store, pending_queue, queue_keys, now) = {}

\* the request id a reply to in_reply_to in room is correlated with, as a list:
\* that of the map's entry for the event, if there is one within the TTL
CorrelatedWith(room, in_reply_to) ==
    IF /\ <<room, in_reply_to>> \in DOMAIN store
       /\ now - store[<<room, in_reply_to>>].created <= TTL_SEC
    THEN <<store[<<room, in_reply_to>>].request_id>>
    ELSE <<>>

\* the request id of the newest entry of the room's queue within the TTL, as a list
NewestPending(room) ==
    LET q == pending_queue[room]
        fresh == {i \in DOMAIN q : now - q[i].created <= TTL_SEC}
    IN IF fresh = {} THEN <<>>
       ELSE <<q[CHOOSE i \in fresh : \A j \in fresh : j <= i].request_id>>

\* C4: a non-bulk approve/reject reply with a reply-to reference resolves the
\* request correlated with the referenced event and only that one, whatever the
\* room's last pending request is; get_last_pending(room) is used only by a reply
\* without a reference. (No state enables a reply step that calls anything else.)
C4_ReplyToTakesPrecedence ==
    \A room \in Rooms :
        /\ \A in_reply_to \in Events :
              ~ENABLED (/\ ProcessApproval(room, in_reply_to, FALSE)
                        /\ CalledIds(ret') # CorrelatedWith(room, in_reply_to))
        /\ ~ENABLED (/\ ProcessApproval(room, NoEvent, FALSE)
                     /\ CalledIds(ret') # NewestPending(room))

\* a reply resolved exactly one request, the one correlated with an event of a
\* room whose last pending request is another one (no other room has any)
C4_Witness ==
    /\ ret.op = "_process_approval"
    /\ \E key \in DOMAIN store :
          /\ ret.val = <<store[key].request_id>>
          /\ now - store[key].created <= TTL_SEC
          /\ NewestPending(key[1]) # <<>>
          /\ NewestPending(key[1]) # <<store[key].request_id>>
          /\ \A room \in Rooms \ {key[1]} : pending_queue[room] = <<>>

\* C5: after an approve_all reply whose resolution calls all succeeded,
\* get_all_pending_global() is empty, whatever room the reply was sent in.
C5_ApproveAllEmptiesEveryQueue ==
    [][\A room \in Rooms :
         (\E cheq_ids \in {CheqIdsFor(room, NoEvent, TRUE)} :
              Resolve(room, NoEvent, TRUE, cheq_ids, cheq_ids))
         => get_all_pending_global(queue_keys', pending_queue', now') = <<>>]_vars

\* the step is a call of record_delivery_start / record_delivery_done
IsStart == n_starts' # n_starts
IsDone == n_dones' # n_dones

\* how far record_delivery_start moves the records it keeps towards the head
Shift == Len(log) + 1 - Len(log')

\* C6: a delivery record starts pending and changes status exactly once: once
\* record_delivery_done has given it a terminal status, no later
\* record_delivery_start or record_delivery_done changes its status again.
C6_StatusChangesOnce ==
    [][/\ IsStart =>
             /\ log'[Len(log')].status = STATUS_PENDING
             /\ \A i \in DOMAIN log :
                   i - Shift >= 1 => log'[i - Shift].status = log[i].status
       /\ IsDone =>
             \A i \in DOMAIN log :
                 log[i].status # STATUS_PENDING => log'[i].status = log[i].status]_vars

Ids(l) == {l[i].delivery_id : i \in DOMAIN l}

C7_AtMostCap == Len(log) <= max_entries

\* a start appends the new record and, when the ledger is full, drops the oldest
\* one; a completion keeps every record in its place
C7_Fifo ==
    /\ IsStart =>
          /\ log'[Len(log')].delivery_id = ret'.val
          /\ IF Len(log) < max_entries
             THEN SubSeq(log', 1, Len(log') - 1) = log
             ELSE SubSeq(log', 1, Len(log') - 1) = Tail(log)
    /\ IsDone =>
          /\ Len(log') = Len(log)
          /\ \A i \in DOMAIN log : log'[i].delivery_id = log[i].delivery_id

\* the id of the record a start evicts is not retrievable afterwards
C7_EvictedGone ==
    (IsStart /\ Len(log) = max_entries) =>
        get_delivery_status(log', log[1].delivery_id) = None

\* the same, when no record that stays bears the id of the evicted one
C7_EvictedGoneUnlessRepeated ==
    (/\ IsStart /\ Len(log) = max_entries
     /\ log[1].delivery_id \notin Ids(Tail(log)) \cup {ret'.val}) =>
        get_delivery_status(log', log[1].delivery_id) = None

C8_AppendsPending ==
    IsStart =>
        /\ ret'.op = "record_delivery_start"
        /\ log' # <<>>
        /\ log'[Len(log')].delivery_id = ret'.val
        /\ log'[Len(log')].status = STATUS_PENDING

C8_NoSharedId ==
    \A i, j \in DOMAIN log : i # j => log[i].delivery_id # log[j].delivery_id

C9_DoneHitsMostRecentOnly ==
    [][IsDone =>
         LET delivery_id == ret'.args[1]
             matches == {i \in DOMAIN log : log[i].delivery_id = delivery_id}
         IN IF matches = {}
            THEN ret'.val = FALSE /\ log' = log
            ELSE /\ ret'.val = TRUE
                 /\ Len(log') = Len(log)
                 /\ \A i \in DOMAIN log :
                       (\E j \in matches : j > i) \/ i \notin matches
                           => log'[i] = log[i]
                 /\ \E i \in matches :
                       /\ \A j \in matches : j <= i
                       /\ log'[i].delivery_id = delivery_id
                       /\ log'[i].status # STATUS_PENDING]_vars

\* a completion has just hit the younger of two records with the same id and left
\* the older one pending
C9_Witness ==
    /\ ret.op = "record_delivery_done"
    /\ ret.val = TRUE
    /\ \E i, j \in DOMAIN log :
          /\ i < j
          /\ log[i].delivery_id = ret.args[1]
          /\ log[j].delivery_id = ret.args[1]
          /\ log[i].status = STATUS_PENDING
          /\ log[j].status # STATUS_PENDING

\* C10: an exception of the per-event handler is contained to its event in both
\* sync loops: the rest of the batch is still dispatched (the loop is back at the
\* poll, or waiting, only with the batch exhausted), there is no backoff wait and
\* no disconnect callback for it.
C10_HandlerExceptionContained ==
    /\ pc \in {"poll", "sleep"} => pos > Len(cur_batch)
    /\ cause = "handler" => pc # "sleep" /\ ~disconnect_called

\* C11: in both sync loops every failed poll (exception or error response) is
\* followed by a wait before the next poll, and the wait after the k-th failed poll
\* in a row is min(2 * 2^(k-1), 60) seconds (2 s again after a successful poll).
C11_BackoffAfterEveryFailedPoll ==
    [][consec_fails' = consec_fails + 1 =>
         /\ pc' = "sleep"
         /\ last_wait' = Min(base_backoff * 2 ^ (consec_fails' - 1), max_backoff)]_vars

\* disconnect / stop has returned
Stopped == ~running /\ pc # "not_started"

\* C12: after disconnect() / stop() has returned the loop task has terminated and
\* no exception has reached the caller, and from then on there is no poll and no
\* handler invocation, wherever the loop stood when the stop was requested.
C12_StopEndsTheLoop ==
    /\ [](Stopped => /\ pc = "done"
                      /\ task_end # "none"
                      /\ ~ReachesCaller(task_end))
    /\ [][Stopped => /\ pc' = "done"
                      /\ <<cur_batch, pos, consec_fails>>' = <<cur_batch, pos, consec_fails>>]_vars

\* the stop came while the loop waited in backoff after a handler exception, part
\* of the batch undispatched
C12_Witness ==
    /\ Stopped
    /\ task_end = "cancelled"
    /\ cause = "handler"
    /\ pos <= Len(cur_batch)

\* the chat ids that resolve to a room
ResolvingTo(matrix_room_id) ==
    {c \in ChatIds :
        get_matrix_room_id(USE_PRIVATE_ROOM, SHARED_ROOM_ID, chat_to_room, c) = matrix_room_id}

\* C13: right after forget_room(R) the room has no chat ids left
\* (get_feishu_chat_ids(R) is empty, get_feishu_chat_id(R) is None) and, in
\* private-room mode, no chat id resolves to R.
C13_ForgetRemovesRoomAndAssociations ==
    ret.op = "forget_room" =>
        /\ get_feishu_chat_ids(room_to_chats, ret.args[1]) = <<>>
        /\ get_feishu_chat_id(room_to_chats, ret.args[1]) = NoneStr
        /\ ret.args[1] \notin DOMAIN room_to_chats
        /\ USE_PRIVATE_ROOM => ResolvingTo(ret.args[1]) = {}

\* a room was forgotten in private-room mode, and its removal took the mapping of a
\* chat id that another room still lists, while a third chat id stays mapped
C13_Witness ==
    /\ ret.op = "forget_room"
    /\ USE_PRIVATE_ROOM
    /\ DOMAIN chat_to_room # {}
    /\ \E r \in DOMAIN room_to_chats, i \in 1..2 :
          /\ i <= Len(room_to_chats[r])
          /\ room_to_chats[r][i] \notin DOMAIN chat_to_room

\* the elements of a list
Elems(l) == {l[i] : i \in DOMAIN l}

NoDuplicates(l) == \A i, j \in DOMAIN l : l[i] = l[j] => i = j

\* C14: set_room_mapping is idempotent and keeps first-binding order: no room's
\* list holds a chat id twice; a binding of a chat id the room already lists leaves
\* the list as it is and a binding of a new one appends it at the end (so A, B, A
\* gives [A, B]); and repeating the binding just made changes nothing.
C14_BindIdempotentFirstSeenOrder ==
    /\ [](/\ \A r \in Rooms : NoDuplicates(get_feishu_chat_ids(room_to_chats, r))
          /\ ret.op = "set_room_mapping" =>
                /\ RoomToChatsAfterSet(room_to_chats, ret.args[1], ret.args[2])
                      = room_to_chats
                /\ DictSet(chat_to_room, ret.args[1], ret.args[2]) = chat_to_room)
    /\ [][ret'.op = "set_room_mapping" =>
            \A r \in Rooms :
                get_feishu_chat_ids(room_to_chats', r) =
                    IF r # ret'.args[2]
                       \/ ret'.args[1] \in Elems(get_feishu_chat_ids(room_to_chats, r))
                    THEN get_feishu_chat_ids(room_to_chats, r)
                    ELSE Append(get_feishu_chat_ids(room_to_chats, r), ret'.args[1])]_vars

\* A was bound again to a room that lists A, then B
C14_Witness ==
    /\ ret.op = "set_room_mapping"
    /\ ret.args = <<"A", "r1">>
    /\ get_feishu_chat_ids(room_to_chats, "r1") = <<"A", "B">>

\* C15: in shared-room mode (private-room mode off, a shared room configured)
\* get_matrix_room_id gives the shared room for every chat id in every state, and
\* set_room_mapping still records the association it is given.
C15_SharedModeResolvesToSharedRoom ==
    /\ (~USE_PRIVATE_ROOM /\ Truthy(SHARED_ROOM_ID)) =>
          \A c \in ChatIds :
             get_matrix_room_id(USE_PRIVATE_ROOM, SHARED_ROOM_ID, chat_to_room, c)
                = SHARED_ROOM_ID
    /\ ret.op = "set_room_mapping" =>
          /\ DictGet(chat_to_room, ret.args[1]) = ret.args[2]
          /\ ret.args[1] \in Elems(get_feishu_chat_ids(room_to_chats, ret.args[2]))

\* in shared-room mode two chat ids are bound to a room that is not the shared one
C15_Witness ==
    /\ ~USE_PRIVATE_ROOM
    /\ Truthy(SHARED_ROOM_ID)
    /\ ret.op = "set_room_mapping"
    /\ ret.args[2] # SHARED_ROOM_ID
    /\ Len(get_feishu_chat_ids(room_to_chats, ret.args[2])) = 2
    /\ DictGet(chat_to_room, ret.args[1]) # SHARED_ROOM_ID

\* what lookup_by_reply_to returns for every (room, event) at time t
Lookups(st, t) ==
    [p \in Rooms \X Events |-> lookup_by_reply_to(st, t, p[1], p[2])]

\* C16: lookup_by_reply_to(room, event) returns the recorded (request id, gateway
\* url) exactly when that pair was recorded, not consumed since and not older than
\* the TTL: nothing is returned before any record; a record makes its own pair
\* answer and changes no other; a consume makes its own pair answer None and
\* changes no other; the passing of time only turns the answers older than the TTL
\* into None; a lookup or a queue removal changes no answer. (No state enables a
\* step that does otherwise.)
C16_LookupExactlyLiveRecords ==
    LET old == Lookups(store, now) IN
    /\ n_records = 0 => \A p \in Rooms \X Events : old[p] = None
    /\ \A room \in Rooms, request_id \in RequestIds, url \in Urls :
          ~ENABLED (/\ RecordApproval(room, NextEvent, request_id, url)
                    /\ Lookups(store', now') #
                         [old EXCEPT ![<<room, NextEvent>>] =
                                        <<request_id, rstrip_slash(url)>>])
    /\ \A room \in Rooms, event \in Events :
          /\ ~ENABLED (/\ ConsumeApprovalReply(room, event)
                       /\ Lookups(store', now') # [old EXCEPT ![<<room, event>>] = None])
          /\ ~ENABLED (/\ LookupByReplyTo(room, event)
                       /\ Lookups(store', now') # old)
    /\ \A room \in Rooms, cheq_id \in RequestIds :
          ~ENABLED (/\ RemoveFromPending(room, cheq_id)
                    /\ Lookups(store', now') # old)
    /\ ~ENABLED (/\ Tick
                 /\ UNCHANGED approvalVars
                 /\ Lookups(store', now') #
                      [p \in Rooms \X Events |->
                          IF old[p] # None /\ (now + 1) - store[p].created <= TTL_SEC
                          THEN old[p] ELSE None])

\* of two recorded pairs one was consumed while within the TTL (its queue entry is
\* still returned) and answers None, the other still answers
C16_Witness ==
    \E p, o \in Rooms \X Events :
        /\ p # o
        /\ p[2] <= n_records
        /\ p \notin DOMAIN store
        /\ get_all_pending(pending_queue, now, p[1]) # <<>>
        /\ p[1] # o[1]
        /\ p[2] # o[2]
        /\ lookup_by_reply_to(store, now, o[1], o[2]) # None

\* the positions of a queue whose entries are within the TTL at time t
FreshIndices(q, t) == {i \in DOMAIN q : t - q[i].created <= TTL_SEC}

\* the pairs of the entries within the TTL, in queue order
FreshInOrder(q, t) ==
    LET fresh == FreshIndices(q, t)
        Nth(k) == CHOOSE i \in fresh : Cardinality({j \in fresh : j < i}) = k - 1
    IN [k \in 1..Cardinality(fresh) |-> Pair(q[Nth(k)])]

\* C17: get_all_pending(room) is exactly the entries of the room's queue within the
\* TTL, in insertion order; get_last_pending(room) is the last element of
\* get_all_pending(room), None when that is empty; and what they return for a room
\* does not depend on any other room's queue.
C17_RoomReadersAgree ==
    \A room \in Rooms :
        LET all == get_all_pending(pending_queue, now, room)
            alone == [r \in Rooms |-> IF r = room THEN pending_queue[r] ELSE <<>>]
        IN /\ all = FreshInOrder(pending_queue[room], now)
           /\ get_last_pending(pending_queue, now, room) =
                 IF all = <<>> THEN None ELSE all[Len(all)]
           /\ get_all_pending(alone, now, room) = all
           /\ get_last_pending(alone, now, room) =
                 get_last_pending(pending_queue, now, room)

\* a room holds two entries of different requests within the TTL
C17_Witness ==
    \E room \in Rooms :
        /\ Len(get_all_pending(pending_queue, now, room)) = 2
        /\ get_all_pending(pending_queue, now, room)[1]
              # get_all_pending(pending_queue, now, room)[2]
        /\ get_last_pending(pending_queue, now, room)
              = Pair(pending_queue[room][2])

\* a room holds two entries, only one of them within the TTL
C17_WitnessExpired ==
    \E room \in Rooms :
        /\ Len(pending_queue[room]) = 2
        /\ Len(get_all_pending(pending_queue, now, room)) = 1

\* the queue entries of all rooms within the TTL
FreshEntries ==
    UNION {{pending_queue[room][i] : i \in FreshIndices(pending_queue[room], now)} :
              room \in Rooms}

\* C18: the global readers have the room readers' semantics across all rooms:
\* get_all_pending_global returns the entries of every room within the TTL, and
\* get_last_pending_global returns the most recently recorded of them (no entry
\* within the TTL was recorded at a later time than the one returned), None when
\* there is none.
C18_GlobalReadersAcrossRooms ==
    /\ Range(get_all_pending_global(queue_keys, pending_queue, now))
          = {Pair(e) : e \in FreshEntries}
    /\ LET last == get_last_pending_global(queue_keys, pending_queue, now) IN
       IF FreshEntries = {} THEN last = None
       ELSE \E e \in FreshEntries :
               /\ Pair(e) = last
               /\ \A o \in FreshEntries : o.created <= e.created

\* the store without the entry of (room, in_reply_to) if that entry is older than
\* the TTL
StoreLessExpired(room, in_reply_to) ==
    LET key == <<room, in_reply_to>> IN
    IF key \in DOMAIN store /\ now - store[key].created > TTL_SEC
    THEN [k \in DOMAIN store \ {key} |-> store[k]]
    ELSE store

\* a reply step that made no call, sent nothing and changed nothing but the expired
\* entry it looked up
Dropped(room, in_reply_to) ==
    /\ ret'.op = "_process_approval"
    /\ CalledIds(ret') = <<>>
    /\ ret'.args = <<None>>
    /\ resolved' = resolved
    /\ pending_queue' = pending_queue
    /\ queue_keys' = queue_keys
    /\ store' = StoreLessExpired(room, in_reply_to)

\* C19: a non-bulk approve/reject reply that resolves to no pending request (its
\* reply-to reference has no entry or an expired one, or it has no reference and the
\* room has no entry within the TTL) makes no resolution call, sends no
\* confirmation, returns normally and changes nothing of the pending set except
\* that the expired entry it looked up is deleted. (No state enables a reply step
\* that does otherwise.)
C19_UnresolvedReplyDropped ==
    \A room \in Rooms :
        /\ \A in_reply_to \in Events :
              CorrelatedWith(room, in_reply_to) = <<>> =>
                 ~ENABLED (/\ ProcessApproval(room, in_reply_to, FALSE)
                           /\ ~Dropped(room, in_reply_to))
        /\ NewestPending(room) = <<>> =>
              ~ENABLED (/\ ProcessApproval(room, NoEvent, FALSE)
                        /\ ~Dropped(room, NoEvent))

\* a reply was dropped, and a recorded event has lost its entry to the lazy
\* deletion while its request is still queued
C19_Witness ==
    /\ ret.op = "_process_approval"
    /\ CalledIds(ret) = <<>>
    /\ ret.args = <<None>>
    /\ \E event \in SentEvents : \A room \in Rooms : <<room, event>> \notin DOMAIN store
    /\ \E room \in Rooms : pending_queue[room] # <<>>

\* the positions of the calls that succeeded
OkIndices(outcomes) == {i \in DOMAIN outcomes : outcomes[i] = "ok"}

\* what the confirmation is to be for the attempted ids and their outcomes
ExpectedConfirmation(room, ids, outcomes) ==
    LET ok == OkIndices(outcomes)
        Nth(k) == CHOOSE i \in ok : Cardinality({j \in ok : j < i}) = k - 1
    IN IF ok = {} THEN None
       ELSE [room |-> room, count |-> Cardinality(ok),
             ids |-> [k \in 1..Cardinality(ok) |-> Fragment(ids[Nth(k)])]]

\* the bulk step of a reply in room, the outcome of every call given
BulkStep(room, in_reply_to, outcomes) ==
    \E cheq_ids \in {CheqIdsFor(room, in_reply_to, TRUE)} :
        /\ DOMAIN outcomes = DOMAIN cheq_ids
        /\ \E results \in {Results(cheq_ids, outcomes)} :
              Resolve(room, in_reply_to, TRUE, cheq_ids, results)

\* C20: in a bulk approve_all every pending request id is attempted whatever the
\* outcomes of the other calls; an id none of whose calls succeeded is still
\* pending afterwards; and the one confirmation counts and lists (by their
\* fragments, in call order) exactly the ids whose call succeeded, none being sent
\* when no call succeeded. (No state enables a bulk step that does otherwise; the
\* reply-to reference of a bulk reply changes neither the ids nor the store.)
C20_BulkAttemptsEachIndependently ==
    \A ids \in {Firsts(get_all_pending_global(queue_keys, pending_queue, now))} :
    \A room \in Rooms :
        /\ \A in_reply_to \in Events :
              /\ CheqIdsFor(room, in_reply_to, TRUE) = CheqIdsFor(room, NoEvent, TRUE)
              /\ StoreAfterResolve(room, in_reply_to, TRUE)
                    = StoreAfterResolve(room, NoEvent, TRUE)
        /\ \A outcomes \in [DOMAIN ids -> Outcomes] :
           \A unresolved \in {{ids[i] : i \in {k \in DOMAIN ids :
                                   \A j \in OkIndices(outcomes) : ids[j] # ids[k]}}} :
           \A expected \in {ExpectedConfirmation(room, ids, outcomes)} :
               ~ENABLED (/\ BulkStep(room, NoEvent, outcomes)
                         /\ ~(/\ CalledIds(ret') = ids
                              /\ ret'.args = <<expected>>
                              /\ unresolved \subseteq
                                   Range(Firsts(get_all_pending_global(
                                            queue_keys', pending_queue', now')))))

\* a bulk reply attempted two different ids, one call succeeded and one failed:
\* the confirmation counts one and the failed id is still pending
C20_Witness ==
    /\ ret.op = "_process_approval"
    /\ Len(CalledIds(ret)) = 2
    /\ CalledIds(ret)[1] # CalledIds(ret)[2]
    /\ ret.args # <<None>>
    /\ ret.args[1].count = 1
    /\ \E i \in 1..2 :
          /\ Fragment(CalledIds(ret)[i]) # ret.args[1].ids[1]
          /\ CalledIds(ret)[i] \in
                Range(Firsts(get_all_pending_global(queue_keys, pending_queue, now)))

\* the envelope of the handle_delivery_event call that ret keeps
CallAdapter(r) == r.args[1]
CallContent(r) == r.args[3]
CallSendResult(r) == r.args[5]
CallSends(r) == r.args[6]

\* C21: an envelope whose target.channel or target.receive_id is missing, or whose
\* target.channel is not the adapter's platform, is a no-op for the adapter:
\* handle_delivery_event returns False, sends nothing and leaves the ledger as it
\* was.
C21_ForeignOrTargetlessIsNoOp ==
    [][(/\ ret'.op = "handle_delivery_event"
        /\ \/ ~Truthy(CallContent(ret').channel)
           \/ ~Truthy(CallContent(ret').receive_id)
           \/ CallContent(ret').channel # CallAdapter(ret'))
       => /\ ret'.val = FALSE
          /\ CallSends(ret') = <<>>
          /\ log' = log
          /\ next_uuid' = next_uuid]_vars

\* a delivery envelope with a receive id for another platform was refused while the
\* ledger holds a record
C21_Witness ==
    /\ ret.op = "handle_delivery_event"
    /\ CallContent(ret).msgtype = DELIVERY_MSGTYPE
    /\ CallContent(ret).channel = "dingtalk"
    /\ CallContent(ret).receive_id = "oc_1"
    /\ ret.val = FALSE
    /\ log # <<>>

\* the call that ret keeps was made with a delivery envelope that has a channel and
\* a receive id and is addressed to the adapter that was called
ValidForAdapter(r) ==
    /\ r.op = "handle_delivery_event"
    /\ CallContent(r).msgtype = DELIVERY_MSGTYPE
    /\ Truthy(CallContent(r).channel)
    /\ Truthy(CallContent(r).receive_id)
    /\ CallContent(r).channel = CallAdapter(r)

\* C22: for a valid delivery event addressed to the adapter's platform,
\* handle_delivery_event creates exactly one ledger record, makes exactly one send,
\* to the target's receive id, and returns True iff the send returned a platform
\* message id; the record ends delivered in that case and failed otherwise.
C22_ValidDeliveryRecordedAndSent ==
    [][ValidForAdapter(ret') =>
         /\ next_uuid' = next_uuid + 1
         /\ log' # <<>>
         /\ log'[Len(log')].delivery_id = next_uuid
         /\ log' = _trim(Append(log, log'[Len(log')]))
         /\ CallSends(ret') = <<CallContent(ret').receive_id>>
         /\ ret'.val = Truthy(CallSendResult(ret'))
         /\ log'[Len(log')].status =
               IF ret'.val THEN STATUS_DELIVERED ELSE STATUS_FAILED]_vars

\* C23: for a plain message in room R handle_matrix_event sends once to every chat
\* id bound to R, in the order of R's list, whatever the earlier sends returned, and
\* returns True iff at least one send returned a message id; with no chat bound to
\* R it sends nothing and returns False.
C23_FanOutToEveryBoundChat ==
    ret.op = "handle_matrix_event" =>
        LET chat_ids == get_feishu_chat_ids(room_to_chats, ret.args[1])
            results == ret.args[2]
            sends == ret.args[3]
        IN /\ sends = chat_ids
           /\ ret.val = (\E i \in DOMAIN chat_ids : Truthy(results[i]))
           /\ chat_ids = <<>> => sends = <<>> /\ ret.val = FALSE

\* three chats are bound to the room, the first send failed, the second returned a
\* falsy value and the third succeeded: three sends were made and True returned
C23_Witness ==
    /\ ret.op = "handle_matrix_event"
    /\ Len(ret.args[3]) = 3
    /\ ret.args[2][1] = NoneStr
    /\ ret.args[2][2] = ""
    /\ Truthy(ret.args[2][3])
    /\ ret.val = TRUE

\* the arguments and the items of the last query
QueryId(r) == r.args[1]
QueryRange(r) == r.args[2]
QueryReceiveId(r) == r.args[3]
QueryStatus(r) == r.args[4]
QueryLimit(r) == r.args[5]

\* e passes every filter that was supplied, a filter being supplied when a
\* non-empty value is passed for it
Matches(e, r) ==
    /\ QueryId(r) # NoDeliveryId => e.delivery_id = QueryId(r)
    /\ QueryRange(r) # None =>
           QueryRange(r)[1] <= e.started_at /\ e.started_at <= QueryRange(r)[2]
    /\ Truthy(QueryReceiveId(r)) => e.target.receive_id = QueryReceiveId(r)
    /\ Truthy(QueryStatus(r)) => e.status = QueryStatus(r)

MatchingIndices(r) == {i \in DOMAIN log : Matches(log[i], r)}

\* C24: query_delivery_log applies its filters conjunctively: every returned item
\* is a ledger entry that satisfies every supplied filter (delivery id, started_at
\* within the time range, target receive id, status), and when limit is at least the
\* number of matching entries every matching entry is returned, once.
C24_FiltersConjunctive ==
    ret.op = "query_delivery_log" =>
        /\ \A k \in DOMAIN ret.val :
               /\ Matches(ret.val[k], ret)
               /\ \E i \in DOMAIN log : log[i] = ret.val[k]
        /\ QueryLimit(ret) >= Cardinality(MatchingIndices(ret)) =>
               /\ Len(ret.val) = Cardinality(MatchingIndices(ret))
               /\ \A i \in MatchingIndices(ret) : \E k \in DOMAIN ret.val : ret.val[k] = log[i]

\* a query with all four filters supplied returned one entry of a ledger in which
\* another entry fails the status filter only
C24_Witness ==
    /\ ret.op = "query_delivery_log"
    /\ QueryId(ret) # NoDeliveryId
    /\ QueryRange(ret) # None
    /\ Truthy(QueryReceiveId(ret))
    /\ Truthy(QueryStatus(ret))
    /\ Len(ret.val) = 1
    /\ Len(log) = 2

\* the entries of a list are ordered by updated_at, latest first
MostRecentFirst(items) ==
    \A k \in 1..(Len(items) - 1) : items[k].updated_at >= items[k + 1].updated_at

\* C25: for every limit >= 0, 0 included, query_delivery_log returns at most limit
\* items, and they are the most recently started of the matching entries, listed
\* most recent first.
C25_AtMostLimitMostRecent ==
    (ret.op = "query_delivery_log" /\ QueryLimit(ret) >= 0) =>
        /\ Len(ret.val) <= QueryLimit(ret)
        /\ MostRecentFirst(ret.val)
        /\ \A i \in MatchingIndices(ret) :
               Cardinality({j \in MatchingIndices(ret) : j > i}) < QueryLimit(ret)
                   => \E k \in DOMAIN ret.val : ret.val[k] = log[i]

\* the intent the listener is specified to read from a stripped, lowercased body
SpecifiedIntent(body) ==
    IF (Len(body) = 1 /\ body[1] \in ApproveWords) \/ MatchesWordAndId(body)
    THEN "approve"
    ELSE IF body \in BulkPhrases THEN "approve_all"
    ELSE IF Len(body) = 1 /\ body[1] \in RejectWords THEN "reject"
    ELSE "none"

\* C26: the listener drops a message of its own user and a message that is no text;
\* of any other message it reads the intent from the lowercased, trimmed body
\* (approve for exactly an approve word or an approve word followed by an id,
\* approve_all for a bulk phrase, reject for a reject word, none for anything else),
\* and it calls the resolution only for a message of another user that is text and
\* whose intent is not none.
C26_ResolutionOnlyOnCommand ==
    [][ret'.op = "_process_approval" =>
          /\ ~observed'.self
          /\ observed'.msgtype = "m.text"
          /\ SpecifiedIntent(lower(strip(observed'.body))) # "none"]_vars

\* the positions at which handlers start, in trace order
Starts(t) == {a \in DOMAIN t : t[a][1] = "start"}

\* C27: within one polled batch the handlers are invoked one after the other in feed
\* order: the handler of a later event starts only after the handler of every
\* earlier event, its awaited network calls included, has ended.
C27_HandlersStrictlySequential ==
    /\ Cardinality(Pending(trace)) <= 1
    /\ \A a \in Starts(trace), b \in Starts(trace) :
           a < b =>
               /\ trace[a][2] < trace[b][2]
               /\ \E c \in DOMAIN trace : a < c /\ c < b /\ trace[c] = <<"end", trace[a][2]>>

\* the handler of the second event of a batch has started
C27_Witness ==
    /\ Len(cur_batch) >= 2
    /\ \E b \in Starts(trace) : trace[b][2] = 2 /\ b > 1

\* C28: the listener's first poll asks for the full state and every later one does
\* not; a poll issued after a successful one carries since = the token of the most
\* recent successful poll; a failed poll leaves the cursor where it was; and when
\* the listener is about to poll again, every event of the batch its cursor has
\* moved past has been handed to the handler.
C28_CursorFollowsDispatch ==
    loop = "diting" =>
        /\ last_poll # None => last_poll.full_state = last_poll.first
        /\ (last_poll # None /\ last_poll.after # 0) => last_poll.since = last_poll.after
        /\ next_batch = served
        /\ (pc = "poll" /\ served > 0) =>
               \A i \in DOMAIN cur_batch : <<"start", i>> \in Range(trace)

\* C29: handle_approval_callback is idempotent per request id: the first callback
\* stores its result; every later callback with the same request id answers ok with
\* idempotent = True and the stored first result, whatever it carries itself, and
\* writes nothing; get_approval_result keeps returning the first result.
C29_CallbackIdempotent ==
    [][/\ \A rid \in DOMAIN approval_results :
             /\ rid \in DOMAIN approval_results'
             /\ approval_results'[rid] = approval_results[rid]
             /\ (ret'.op = "handle_approval_callback" /\ ret'.args[1] = rid) =>
                    ret'.val = [ok |-> TRUE, idempotent |-> TRUE,
                                result |-> approval_results[rid]]
             /\ (ret'.op = "get_approval_result" /\ ret'.args[1] = rid) =>
                    ret'.val = <<approval_results[rid]>>
       /\ \A rid \in RequestIds \ DOMAIN approval_results :
             (ret'.op = "handle_approval_callback" /\ ret'.args[1] = rid) =>
                 /\ rid \in DOMAIN approval_results'
                 /\ approval_results'[rid] = ret'.val.result
                 /\ ret'.val.result.approved = ret'.args[2]
                 /\ ret'.val.result.approver_id = ret'.args[3]]_vars

\* a later callback of another approver with the opposite decision was answered
\* with the first result
C29_Witness ==
    /\ ret.op = "handle_approval_callback"
    /\ ret.val.idempotent
    /\ ret.val.result.approved # ret.args[2]
    /\ ret.val.result.approver_id # ret.args[3]
    /\ ret.val.result.timestamp < now
    /\ approval_results[ret.args[1]] = ret.val.result

\* the history records of an agent
HistoryOf(agent_id) ==
    {owner_history[k] : k \in {x \in DOMAIN owner_history : x[1] = agent_id}}

\* the owner the history of an agent ends with
Replay(agent_id) ==
    (CHOOSE r \in HistoryOf(agent_id) : \A q \in HistoryOf(agent_id) : q.at <= r.at).to_owner

\* C30: an agent has at most one owner at any time, and every change of its owner
\* (a bind over an existing binding, update_agent_owner, unbind_agent_owner) is
\* retained in the owner-change history: the step that changes the owner of a bound
\* agent leaves a record from the old to the new owner, no record is lost, and the
\* history of an agent, once it has one, ends with the agent's current owner.
C30_OwnerChangesRetained ==
    [][\A agent_id \in AgentIds :
          LET old == get_agent_owner(agent_owner, agent_id)
              new == get_agent_owner(agent_owner, agent_id)'
          IN /\ (Truthy(old) /\ new # old) =>
                    \E r \in HistoryOf(agent_id)' :
                        r.from_owner = old /\ r.to_owner = new /\ r.at = now
             /\ HistoryOf(agent_id) \subseteq HistoryOf(agent_id)'
             /\ HistoryOf(agent_id)' # {} => Replay(agent_id)' = new]_vars

\* C31: a pairing code is single-use and time-limited. submit_pairing_code succeeds
\* only for a code that is issued and unused and has not expired; a successful
\* submit allocates exactly one new agent, binds it to the owner the code was
\* created for and invalidates the code, so that no code is ever redeemed more
\* often than it was issued; an unknown or expired code fails and neither creates
\* nor binds an agent.
C31_PairingCodeSingleUse ==
    [][/\ \A c \in Codes : CountOf(n_redeemed', c) <= CountOf(n_created', c)
       /\ ret'.op = "submit_pairing_code" =>
             LET code == ret'.args[2]
                 live == code \in DOMAIN pending_codes
                 expired == live /\ now > pending_codes[code].expires_at
             IN /\ ret'.val.ok =>
                       /\ live /\ ~expired
                       /\ code \notin DOMAIN pending_codes'
                       /\ n_agents' = n_agents + 1
                       /\ ret'.val.agent_id = AgentId(n_agents') 
                       /\ ret'.val.agent_id \notin DOMAIN agent_owner
                       /\ ret'.val.owner_id = pending_codes[code].owner_id
                       /\ agent_owner' = DictSet(agent_owner, ret'.val.agent_id,
                                                 pending_codes[code].owner_id)
                /\ (~live \/ expired) =>
                       /\ ~ret'.val.ok
                       /\ n_agents' = n_agents
                       /\ agent_owner' = agent_owner]_vars

\* a code that was redeemed once, binding an agent, was typed in again and refused
C31_Witness ==
    /\ ret.op = "submit_pairing_code"
    /\ ~ret.val.ok
    /\ CountOf(n_redeemed, ret.args[2]) = 1
    /\ CountOf(n_created, ret.args[2]) = 1
    /\ n_agents = 1
    /\ DOMAIN agent_owner = {AgentId(1)}

\* the display keys a payload has a value for, in the order of the key list
PresentKeys(keys, payload) ==
    SelectSeq(keys, LAMBDA k : k \in DOMAIN payload /\ payload[k].t # "none")

\* the fallback text the claim describes for a key list and a payload
DescribedText(keys, payload, text) ==
    LET present == PresentKeys(keys, payload)
    IN IF present # <<>>
       THEN /\ text.kind = "lines"
            /\ Len(text.lines) = Len(present)
            /\ \A i \in DOMAIN present :
                   /\ text.lines[i][1] = present[i]
                   /\ text.lines[i][2] = ": "
                   /\ text.lines[i][3] =
                         (IF payload[present[i]].t \in {"list", "dict"}
                          THEN "(见详情)" ELSE payload[present[i]].s)
       ELSE /\ text.kind = "str"
            /\ text.of = payload
            /\ text.len = (IF StrLen(payload) > 500 THEN 500 ELSE StrLen(payload))

\* C32: for a semantic_type without a registered renderer the Feishu and the
\* Telegram renderer build the same plain text: one "key: value" line per display
\* key the payload has, in the fixed key order (text, title, body for an unknown
\* type), a list or map value replaced by the placeholder, and with no matching key
\* the stringified payload cut to 500 characters; {text: hello} gives "text: hello".
C32_FallbackTextSame ==
    ret.op = "render" =>
        LET semantic_type == ret.args[1]
            payload == ret.args[2]
            keys == IF semantic_type = "custom_type" THEN <<"text", "title", "body">>
                    ELSE IF semantic_type = "text" THEN <<"text">>
                    ELSE <<"request_id", "approved", "comment">>
        IN /\ semantic_type \notin FeishuRenderers =>
                 /\ ret.val.feishu.msg_type = "text"
                 /\ DescribedText(keys, payload, ret.val.feishu.text)
           /\ semantic_type \notin TelegramRenderers =>
                 /\ ret.val.telegram.buttons = <<>>
                 /\ DescribedText(keys, payload, ret.val.telegram.text)
           /\ semantic_type \notin FeishuRenderers \cup TelegramRenderers =>
                 ret.val.feishu.text = ret.val.telegram.text
           /\ (semantic_type = "custom_type" /\ payload = [k \in {"text"} |-> Hello]) =>
                 ret.val.feishu.text.lines = <<<<"text", ": ", "hello">>>>

\* an unknown type rendered by both with a list under one display key, a string
\* under a later one and a null under the first
C32_Witness ==
    /\ ret.op = "render"
    /\ ret.args[1] = "custom_type"
    /\ ret.args[2] = [k \in {"text", "title", "body"} |->
                        IF k = "text" THEN Null ELSE IF k = "title" THEN Items ELSE Hello]
    /\ ret.val.telegram.text.lines = <<<<"title", ": ", "(见详情)">>, <<"body", ": ", "hello">>>>
    /\ ret.val.feishu.text = ret.val.telegram.text

\* C33: a well-formed delivery envelope polled by the sync loop reaches the
\* dispatcher with msgtype, semantic_type, target and payload intact, so that
\* parse_delivery_event succeeds on what the handler receives and the envelope is
\* sent once through the adapter its target names and recorded in the ledger.
C33_EnvelopeReachesAdapterIntact ==
    (/\ ret.op = "sync_envelope"
     /\ ret.args[1].channel = "feishu"
     /\ Truthy(ret.args[1].receive_id)) =>
        /\ ret.args[2]
        /\ ret.args[3] = ret.args[1]
        /\ parse_delivery_event(ret.args[3]) # None
        /\ ret.args[4] = {"feishu"}
        /\ \E i \in DOMAIN log : log[i].target.receive_id = ret.args[1].receive_id

\* C34: with auto-create, once handle_feishu_event has returned True for chat C
\* relayed into room R, get_feishu_chat_ids(R) contains C, in private-room mode and
\* in shared-room mode alike.
C34_InboundChatRegistered ==
    (ret.op = "handle_feishu_event" /\ ret.val = TRUE) =>
        ret.args[2] \in Range(get_feishu_chat_ids(room_to_chats, ret.args[3]))

\* C37: a message relayed inbound from chat C into room R is not sent back to C
\* when the bridge's sync loop observes it in R.
C37_NoEchoToOrigin ==
    ret.op = "on_matrix_event" => ret.args[2] \notin Range(ret.args[3])

\* C38: in private-room mode with auto-create, whatever the interleaving of two
\* concurrent handle_feishu_event calls for one unmapped chat, at most one room is
\* created for that chat and the messages relayed from it all went into the room
\* the chat is bound to.
C38_OneRoomPerChat ==
    USE_PRIVATE_ROOM =>
        \A chat_id \in InboundChats :
            /\ Cardinality({i \in DOMAIN rooms_made : rooms_made[i].chat_id = chat_id}) <= 1
            /\ \A i \in DOMAIN relayed :
                   relayed[i].chat_id = chat_id =>
                       relayed[i].room_id = DictGet(chat_to_room, chat_id)

\* C35: every ledger record with status delivered has a platform message id and
\* every record with status failed has an error_reason, whichever adapter
\* completed it.
C35_TerminalRecordsCarryIdOrReason ==
    \A i \in DOMAIN log :
        /\ log[i].status = STATUS_DELIVERED => log[i].feishu_message_id # NoneStr
        /\ log[i].status = STATUS_FAILED => log[i].error_reason # NoneStr

\* C39: no record created by handle_delivery_event is pending once the handler
\* invocation has ended, whether the send returned an id or nothing or the
\* renderer or the send raised.
C39_NoRecordLeftPending ==
    \A i \in DOMAIN log : log[i].status # STATUS_PENDING

\* C36: in private-room mode the two maps of the room registry agree in every
\* reachable state: chat C is listed in get_feishu_chat_ids(R) exactly when C
\* resolves to R, also after C was re-bound from one room to another.
C36_RegistryMapsAgree ==
    USE_PRIVATE_ROOM =>
        \A feishu_chat_id \in ChatIds, matrix_room_id \in Rooms :
            feishu_chat_id \in Range(get_feishu_chat_ids(room_to_chats, matrix_room_id))
                <=> get_matrix_room_id(USE_PRIVATE_ROOM, SHARED_ROOM_ID, chat_to_room,
                                       feishu_chat_id) = matrix_room_id

\* C40: start_diting_listener returns True only if a listener sync loop is
\* running, and at most one listener loop runs at a time; after a first call that
\* returned False for want of configuration a later call does not report success
\* without having started a loop.
C40_TrueOnlyWithRunningLoop ==
    /\ n_loops <= 1
    /\ (ret.op = "start_diting_listener" /\ ret.val = TRUE) =>
          /\ n_loops = 1
          /\ running
          /\ pc \notin {"not_started", "done"}

====
